---- MODULE Spec2Model ----
(***************************************************************************)
(* A model of the gb-rs emulation core: the address-range dispatch of the  *)
(* bus (src/src/gb/bus.rs), the memory-mapped video unit                    *)
(* (src/src/gb/video.rs) and the CPU execution state machine                *)
(* (src/src/gb/cpu/core.rs).                                                *)
(*                                                                         *)
(* Spec drives the CPU engine (tick and the debugger entry points) over a   *)
(* fallible bus.  BusSpec drives the bus of bus.rs alone: one byte written  *)
(* and one read per behaviour, over the whole 16-bit address space.         *)
(* AccessSpec does the same for each access width.  The specifications      *)
(* further down drive one operation each on its own.                        *)
(***************************************************************************)
EXTENDS Integers, Sequences, FiniteSets, TLC

VARIABLES
    cpu,              \* the CPU struct (core.rs:54-86), a record
    cells,            \* bus memory: the bytes written so far, keyed by <<array, index>>
    panicked,         \* the process has aborted (a Rust panic)
    overflow_checks,  \* build profile: TRUE when integer overflow panics (debug)
    last,             \* history: what the last tick did
    ticks,            \* history: ticks since the tick that started in FetchOpcode
    clean,            \* history: no phase of the current instruction ended in an error
    armed,            \* history: 0 no speed-switch request absorbed yet, 1 one is absorbed
                      \* and not used up, 2 the last one absorbed has been used up
    steps,            \* history: number of calls the driver has made so far
    bus_addr,         \* the address under test
    bus_pc,           \* position of the driver: "idle", "written", "read", ..., or the
                      \* number of writes it has made
    bus_last,         \* the last operation on the bus or on a device, and its outcome
    emu               \* the front end's EmuState (ui/state.rs:10-23), a record

vars == <<cpu, cells, panicked, overflow_checks, last, ticks, clean, armed, steps,
          bus_addr, bus_pc, bus_last, emu>>

cpu_vars == <<cpu, overflow_checks, last, ticks, clean, armed, steps>>
bus_vars == <<bus_addr, bus_pc, bus_last>>

-----------------------------------------------------------------------------
(* Bounds of the model *)

\* Ticks per behaviour of Spec.
MaxTicks == 7

\* Highest address of the 16-bit address space (addr: u16).
AddrMax == 65535

-----------------------------------------------------------------------------
(* Fixed-width arithmetic *)

U8(x) == x % 256
U16(x) == x % 65536

Min(S) == CHOOSE m \in S : \A n \in S : m <= n

\* Bitwise or of two naturals (the `|=` of fetch_immediate).
RECURSIVE BitOr(_, _)
BitOr(a, b) ==
    IF a = 0 THEN b
    ELSE IF b = 0 THEN a
    ELSE (IF a % 2 = 1 \/ b % 2 = 1 THEN 1 ELSE 0) + 2 * BitOr(a \div 2, b \div 2)

-----------------------------------------------------------------------------
(* Bus: address-range dispatch (bus.rs) *)

Arm(lo, hi, owner, base) == [lo |-> lo, hi |-> hi, owner |-> owner, base |-> base]

\* ReadArms with the video unit handed the offset into the matched range.
ReadArms_LocalPpu == <<
    Arm(\h0000, \h3FFF, "rom_00", 0),
    Arm(\h4000, \h7FFF, "rom_nn", \h4000),
    Arm(\h8000, \h9FFF, "ppu", \h8000),
    Arm(\hA000, \hBFFF, "eram", \hA000),
    Arm(\hC000, \hCFFF, "wram_00", \hC000),
    Arm(\hD000, \hDFFF, "wram_nn", \hD000),
    Arm(\hE000, \hEFFF, "wram_00", \hE000),
    Arm(\hF000, \hFDFF, "wram_nn", \hF000),
    Arm(\hFE00, \hFE9F, "ppu", \hFE00),
    Arm(\hFF10, \hFF3F, "apu", \hFF10),
    Arm(\hFF40, \hFF6F, "ppu", \hFF40),
    Arm(\hFF80, \hFFFE, "hram", \hFF80) >>

\* ReadArms with the first echo range sent to the wrong work RAM bank.
ReadArms_WrongBank == <<
    Arm(\h0000, \h3FFF, "rom_00", 0),
    Arm(\h4000, \h7FFF, "rom_nn", \h4000),
    Arm(\h8000, \h9FFF, "ppu", 0),
    Arm(\hA000, \hBFFF, "eram", \hA000),
    Arm(\hC000, \hCFFF, "wram_00", \hC000),
    Arm(\hD000, \hDFFF, "wram_nn", \hD000),
    Arm(\hE000, \hEFFF, "wram_nn", \hE000),
    Arm(\hF000, \hFDFF, "wram_nn", \hF000),
    Arm(\hFE00, \hFE9F, "ppu", 0),
    Arm(\hFF10, \hFF3F, "apu", \hFF10),
    Arm(\hFF40, \hFF6F, "ppu", 0),
    Arm(\hFF80, \hFFFE, "hram", \hFF80) >>

\* The match arms of <Bus as MemR>::read, in source order.  base is what the arm
\* subtracts from the address before it calls the component (0: the address is
\* passed on as it is).
ReadArms == <<
    Arm(\h0000, \h3FFF, "rom_00", 0),
    Arm(\h4000, \h7FFF, "rom_nn", \h4000),
    Arm(\h8000, \h9FFF, "ppu", 0),
    Arm(\hA000, \hBFFF, "eram", \hA000),
    Arm(\hC000, \hCFFF, "wram_00", \hC000),
    Arm(\hD000, \hDFFF, "wram_nn", \hD000),
    Arm(\hE000, \hEFFF, "wram_00", \hE000),
    Arm(\hF000, \hFDFF, "wram_nn", \hF000),
    Arm(\hFE00, \hFE9F, "ppu", 0),
    Arm(\hFF10, \hFF3F, "apu", \hFF10),
    Arm(\hFF40, \hFF6F, "ppu", 0),
    Arm(\hFF80, \hFFFE, "hram", \hFF80) >>

\* WriteArms with the HRAM range one address too long.
WriteArms_HramLong == <<
    Arm(\h0000, \h3FFF, "rom_00", 0),
    Arm(\h4000, \h7FFF, "rom_nn", \h4000),
    Arm(\h8000, \h9FFF, "ppu", 0),
    Arm(\hA000, \hBFFF, "eram", \hA000),
    Arm(\hC000, \hCFFF, "wram_00", \hC000),
    Arm(\hD000, \hDFFF, "wram_nn", \hD000),
    Arm(\hE000, \hEFFF, "wram_00", \hE000),
    Arm(\hF000, \hFDFF, "wram_nn", \hF000),
    Arm(\hFE00, \hFE9F, "ppu", 0),
    Arm(\hFF10, \hFF3F, "apu", \hFF10),
    Arm(\hFF40, \hFF6F, "ppu", 0),
    Arm(\hFF80, \hFFFF, "hram", \hFF80) >>

\* WriteArms with the external RAM range one address too long.
WriteArms_Overlap == <<
    Arm(\h0000, \h3FFF, "rom_00", 0),
    Arm(\h4000, \h7FFF, "rom_nn", \h4000),
    Arm(\h8000, \h9FFF, "ppu", 0),
    Arm(\hA000, \hC000, "eram", \hA000),
    Arm(\hC000, \hCFFF, "wram_00", \hC000),
    Arm(\hD000, \hDFFF, "wram_nn", \hD000),
    Arm(\hE000, \hEFFF, "wram_00", \hE000),
    Arm(\hF000, \hFDFF, "wram_nn", \hF000),
    Arm(\hFE00, \hFE9F, "ppu", 0),
    Arm(\hFF10, \hFF3F, "apu", \hFF10),
    Arm(\hFF40, \hFF6F, "ppu", 0),
    Arm(\hFF80, \hFFFE, "hram", \hFF80) >>

\* The match arms of <Bus as MemW>::write, in source order.
WriteArms == <<
    Arm(\h0000, \h3FFF, "rom_00", 0),
    Arm(\h4000, \h7FFF, "rom_nn", \h4000),
    Arm(\h8000, \h9FFF, "ppu", 0),
    Arm(\hA000, \hBFFF, "eram", \hA000),
    Arm(\hC000, \hCFFF, "wram_00", \hC000),
    Arm(\hD000, \hDFFF, "wram_nn", \hD000),
    Arm(\hE000, \hEFFF, "wram_00", \hE000),
    Arm(\hF000, \hFDFF, "wram_nn", \hF000),
    Arm(\hFE00, \hFE9F, "ppu", 0),
    Arm(\hFF10, \hFF3F, "apu", \hFF10),
    Arm(\hFF40, \hFF6F, "ppu", 0),
    Arm(\hFF80, \hFFFE, "hram", \hFF80) >>

Owners == {"rom_00", "rom_nn", "ppu", "eram", "wram_00", "wram_nn", "apu", "hram"}

\* The `_ => panic!("invalid memory address")` arm.
Invalid == [owner |-> "invalid", off |-> 0]

MatchingArms(arms, addr) ==
    {i \in DOMAIN arms : arms[i].lo <= addr /\ addr <= arms[i].hi}

\* A Rust match takes the first arm whose pattern matches.
Dispatch(arms, addr) ==
    IF MatchingArms(arms, addr) = {} THEN Invalid
    ELSE LET i == Min(MatchingArms(arms, addr))
         IN  [owner |-> arms[i].owner, off |-> addr - arms[i].base]

ReadDispatch(addr) == Dispatch(ReadArms, addr)
WriteDispatch(addr) == Dispatch(WriteArms, addr)

-----------------------------------------------------------------------------
(* Components behind the bus *)

\* Memory::new(size) in Bus::new.
MemorySize(owner) ==
    CASE owner = "rom_00" -> \h4000
      [] owner = "rom_nn" -> \h4000
      [] owner = "eram" -> \h2000
      [] owner = "hram" -> 127
      [] owner = "wram_00" -> \h1000
      [] owner = "wram_nn" -> \h1000

\* A located access: the byte array, the index of the first byte in it, and the
\* length of the slice handed to read_le / write_le (the bytes from the first one
\* to the end of the array).
Loc(arr, idx, room) == [arr |-> arr, idx |-> idx, room |-> room]
NoLoc == Loc("invalid", 0, 0)

\* Memory: a flat byte array; read and write take the slice from the offset on.
MemoryLocate(owner, off) == Loc(owner, off, MemorySize(owner) - off)

\* <PPU as MemR>::read and <PPU as MemW>::write: the same match on the address as
\* handed over by the bus.  A tile is 16 bytes, a sprite 4; a sprite access takes
\* sprite (addr >> 2) and starts at byte (addr % 2) of it.
PpuLocate(addr) ==
    CASE \h8000 <= addr /\ addr <= \h97FF ->
            Loc("tdt", addr - \h8000, 16 - ((addr - \h8000) % 16))
      [] \h9800 <= addr /\ addr <= \h9BFF ->
            Loc("bgtm0", addr - \h9800, 1024 - (addr - \h9800))
      [] \h9C00 <= addr /\ addr <= \h9FFF ->
            Loc("bgtm1", addr - \h9C00, 1024 - (addr - \h9C00))
      [] \hFE00 <= addr /\ addr <= \hFE9F ->
            Loc("oam", ((addr - \hFE00) \div 4) * 4 + ((addr - \hFE00) % 2),
                4 - ((addr - \hFE00) % 2))
      [] \hFF40 <= addr /\ addr <= \hFF6F ->
            Loc("regs", addr - \hFF40, 48 - (addr - \hFF40))
      [] OTHER -> NoLoc

\* The sound unit: a register bank of 0x30 bytes addressed by local offset.
ApuLocate(off) == Loc("apu", off, 48 - off)

\* The component call of a dispatched access.
Locate(d) ==
    CASE d.owner = "invalid" -> NoLoc
      [] d.owner = "ppu" -> PpuLocate(d.off)
      [] d.owner = "apu" -> ApuLocate(d.off)
      [] OTHER -> MemoryLocate(d.owner, d.off)

-----------------------------------------------------------------------------
(* Sized access (bus.rs, MemSize) and the memory behind the bus *)

Widths == {"u8", "i8", "u16"}

\* MemSize::byte_size
ByteSize(T) == IF T = "u16" THEN 2 ELSE 1

\* MemSize::read_le on a slice that starts with the bytes b0, b1.
\* `buf[0] as i8` reinterprets the byte as a two's complement number.
ReadLe(T, b0, b1) ==
    CASE T = "u8" -> b0
      [] T = "i8" -> IF b0 >= 128 THEN b0 - 256 ELSE b0
      [] T = "u16" -> b1 * 256 + b0

\* WriteLe with the two bytes of a u16 in the other order.
WriteLe_BigEndian(T, v) ==
    CASE T = "u8" -> <<v>>
      [] T = "i8" -> <<U8(v + 256)>>
      [] T = "u16" -> <<v \div 256, v % 256>>

\* MemSize::write_le: the bytes stored at index 0 and up of the slice.
\* `v as u8` of an i8 is v mod 256; a u16 stores (v & 0xFF) and then (v >> 8).
WriteLe(T, v) ==
    CASE T = "u8" -> <<v>>
      [] T = "i8" -> <<U8(v + 256)>>
      [] T = "u16" -> <<v % 256, v \div 256>>

\* Memory blocks and device arrays are zero-filled at construction: a byte never
\* written reads as zero.
Preload(key) == {0}

LoadSet(mem, key) == IF key \in DOMAIN mem THEN {mem[key]} ELSE Preload(key)

Store(mem, key, v) ==
    [k \in (DOMAIN mem) \cup {key} |-> IF k = key THEN v ELSE mem[k]]

StoreBytes(mem, loc, bytes) ==
    IF Len(bytes) = 1 THEN Store(mem, <<loc.arr, loc.idx>>, bytes[1])
    ELSE Store(Store(mem, <<loc.arr, loc.idx>>, bytes[1]),
               <<loc.arr, loc.idx + 1>>, bytes[2])

\* One read of width T through the bus: "invalid" for an address no arm claims,
\* "oob" when the slice is shorter than the width (an index out of bounds in
\* read_le), else every value the addressed bytes may hold.
RawRead(mem, addr, T) ==
    LET loc == Locate(ReadDispatch(addr)) IN
    IF loc = NoLoc THEN {[st |-> "invalid", v |-> 0]}
    ELSE IF loc.room < ByteSize(T) THEN {[st |-> "oob", v |-> 0]}
    ELSE {[st |-> "ok", v |-> ReadLe(T, b0, b1)] :
            b0 \in LoadSet(mem, <<loc.arr, loc.idx>>),
            b1 \in IF T = "u16" THEN LoadSet(mem, <<loc.arr, loc.idx + 1>>) ELSE {0}}

\* One write of width T through the bus.
RawWrite(mem, addr, T, v) ==
    LET loc == Locate(WriteDispatch(addr)) IN
    IF loc = NoLoc THEN [st |-> "invalid", mem |-> mem]
    ELSE IF loc.room < ByteSize(T) THEN [st |-> "oob", mem |-> mem]
    ELSE [st |-> "ok", mem |-> StoreBytes(mem, loc, WriteLe(T, v))]

-----------------------------------------------------------------------------
(* CPU: types (core.rs:7-51) *)

\* OperandLocation, with MemoryAddressing folded in.
MemoryLocs == {"MemA16", "MemIO", "MemC", "MemBC", "MemDE", "MemHL", "MemSP"}
IsMemory(loc) == loc \in MemoryLocs

\* OpcodeInfo(mnemonic, destination, source, size, cycles taken, cycles not taken):
\* the tuple fields .0 to .5.
OpcodeInfo(mn, dst, src, size, taken, untaken) ==
    [mn |-> mn, dst |-> dst, src |-> src, size |-> size, taken |-> taken,
     untaken |-> untaken]

\* CpuState
FetchOpcode == [tag |-> "FetchOpcode", n |-> 0]
FetchByte0 == [tag |-> "FetchByte0", n |-> 0]
FetchByte1 == [tag |-> "FetchByte1", n |-> 0]
FetchMemory == [tag |-> "FetchMemory", n |-> 0]
Writeback == [tag |-> "Writeback", n |-> 0]
Delay(n) == [tag |-> "Delay", n |-> n]

\* Option<WritebackOp>
WOp(op, dest, val) == [op |-> op, dest |-> dest, val |-> val]
None == WOp("None", 0, 0)
Write8(dest, d8) == WOp("Write8", dest, d8)
Write16(dest, d16) == WOp("Write16", dest, d16)
Push(d16) == WOp("Push", 0, d16)
Return == WOp("Return", 0, 0)

\* Result<(), dbg::TraceEvent>.  Breakpoint and CgbSpeedSwitchReq are the two
\* events core.rs names; the fatal ones stand for the rest of the enum.
Event(ev, arg) == [ev |-> ev, arg |-> arg]
Ok == Event("Ok", 0)
Breakpoint(pc) == Event("Breakpoint", pc)
CgbSpeedSwitchReq == Event("CgbSpeedSwitchReq", 0)
InvalidAddress(addr) == Event("InvalidAddress", addr)
IllegalOpcode(op) == Event("IllegalOpcode", op)
\* Not an event: the process aborts (panic!, an index out of bounds, an overflow
\* in a build with overflow checks).
Panic == Event("Panic", 0)

-----------------------------------------------------------------------------
(* CPU: the opcode metadata table and the instruction semantics.  Both live in *)
(* cpu/opcodes.rs and cpu/ops.rs, which core.rs calls; the entries below are a  *)
(* sample of the table, one per shape of instruction the engine tells apart.    *)

PrefixCB == \hCB

OPCODES(op) ==
    CASE op = \h00 -> OpcodeInfo("NOP", "Register", "Register", 1, 4, 4)
      [] op = \h06 -> OpcodeInfo("LD B,d8", "Register", "Immediate", 2, 8, 8)
      [] op = \h08 -> OpcodeInfo("LD (a16),SP", "MemA16", "Register", 3, 20, 20)
      [] op = \h0A -> OpcodeInfo("LD A,(BC)", "Register", "MemBC", 1, 8, 8)
      [] op = \h10 -> OpcodeInfo("STOP", "Register", "Register", 1, 4, 4)
      [] op = \h1A -> OpcodeInfo("LD A,(DE)", "Register", "MemDE", 1, 8, 8)
      [] op = \h36 -> OpcodeInfo("LD (HL),d8", "MemHL", "Immediate", 2, 12, 12)
      [] op = \h76 -> OpcodeInfo("HALT", "Register", "Register", 1, 4, 4)
      [] op = \h7E -> OpcodeInfo("LD A,(HL)", "Register", "MemHL", 1, 8, 8)
      [] op = \hC0 -> OpcodeInfo("RET NZ", "Register", "Register", 1, 20, 8)
      [] op = \hC1 -> OpcodeInfo("POP BC", "Register", "MemSP", 1, 12, 12)
      [] op = \hC4 -> OpcodeInfo("CALL NZ,a16", "Register", "Immediate", 3, 24, 12)
      [] op = \hC5 -> OpcodeInfo("PUSH BC", "Register", "Register", 1, 16, 16)
      [] op = \hCB -> OpcodeInfo("PREFIX CB", "Register", "Register", 2, 8, 8)
      [] op = \hD3 -> OpcodeInfo("ILLEGAL", "Register", "Register", 1, 4, 4)
      [] op = \hF0 -> OpcodeInfo("LDH A,(a8)", "Register", "MemIO", 2, 12, 12)
      [] op = \hF2 -> OpcodeInfo("LD A,(C)", "Register", "MemC", 1, 8, 8)
      [] op = \hFA -> OpcodeInfo("LD A,(a16)", "Register", "MemA16", 3, 16, 16)
      [] OTHER -> OpcodeInfo("LD r,r", "Register", "Register", 1, 4, 4)

\* What one call of op() or op_cb() did: its result, and the fields it set.
Effect(res, taken, wop, pc, halt) ==
    [res |-> res, taken |-> taken, wop |-> wop, pc |-> pc, halt |-> halt]
NoEffect(c) == Effect(Ok, FALSE, None, c.pc, c.should_halt)

\* op(): the semantics of the unprefixed opcode in c.opcode.  It may set
\* branch_taken, queue a writeback, change pc and request a halt, or fail.  Data
\* results (the loaded register values) are left out.
Op(c) ==
    (CASE c.opcode = \h08 -> {Effect(Ok, FALSE, Write16(c.operand, c.sp), c.pc, c.should_halt)}
       [] c.opcode = \h10 -> {Effect(Ok, FALSE, None, c.pc, TRUE)}
       [] c.opcode = \h36 -> {Effect(Ok, FALSE, Write8(c.hl, c.operand % 256), c.pc, c.should_halt)}
       [] c.opcode = \h76 -> {Effect(Ok, FALSE, None, c.pc, TRUE)}
       [] c.opcode = \hC0 -> {NoEffect(c), Effect(Ok, TRUE, Return, c.pc, c.should_halt)}
       [] c.opcode = \hC4 -> {NoEffect(c), Effect(Ok, TRUE, Push(c.pc), c.operand, c.should_halt)}
       [] c.opcode = \hC5 -> {Effect(Ok, FALSE, Push(c.bc), c.pc, c.should_halt)}
       [] c.opcode = \hD3 -> {Effect(IllegalOpcode(c.opcode), FALSE, None, c.pc, c.should_halt)}
       [] OTHER -> {NoEffect(c)})
    \cup {Effect(CgbSpeedSwitchReq, FALSE, None, c.pc, c.should_halt)}

\* op_cb(): the semantics of the secondary opcode in c.opcode.  An operation on
\* (HL) either only tests the fetched byte (BIT) or queues the changed byte.
OpCb(c) ==
    IF c.info.src = "MemHL"
    THEN {NoEffect(c), Effect(Ok, FALSE, Write8(c.hl, c.operand % 256), c.pc, c.should_halt)}
    ELSE {NoEffect(c)}

-----------------------------------------------------------------------------
(* CPU: the bus as the engine sees it.  core.rs drives an `impl MemRW` whose   *)
(* read and write return Result: an address no range claims is the fatal       *)
(* invalid-address event instead of the panic of bus.rs.                       *)

\* One entry of a tick's bus access log.
\* done: the access went through (it returned Ok).
Access(kind, T, addr, val, done) ==
    [kind |-> kind, T |-> T, addr |-> addr, val |-> val, done |-> done]

BusRead(mem, addr, T) ==
    {[res |-> CASE r.st = "ok" -> Ok
                [] r.st = "invalid" -> InvalidAddress(addr)
                [] OTHER -> Panic,
      v |-> r.v] : r \in RawRead(mem, addr, T)}

BusWrite(mem, addr, T, v) ==
    LET r == RawWrite(mem, addr, T, v) IN
    [res |-> CASE r.st = "ok" -> Ok
               [] r.st = "invalid" -> InvalidAddress(addr)
               [] OTHER -> Panic,
     mem |-> r.mem]

-----------------------------------------------------------------------------
(* CPU: the phases of tick (core.rs:182-351).  A phase returns the set of its  *)
(* possible outcomes: the CPU it leaves, the memory, its Result, the bus       *)
(* accesses it made, what exec() was entered with, and the value it read.      *)

NoExec == [ran |-> FALSE, operand |-> 0, wop |-> None]
PR(c, mem, res, log, xin, v) ==
    [c |-> c, mem |-> mem, res |-> res, log |-> log, xin |-> xin, v |-> v]

\* CPU::c
RegC(c) == c.bc % 256

\* CPU::fetch_pc
fetch_pc(c, mem) ==
    {IF r.res # Ok
     THEN PR(c, mem, r.res, <<Access("read", "u8", c.pc, 0, FALSE)>>, NoExec, 0)
     ELSE PR([c EXCEPT !.pc = U16(c.pc + 1)], mem, Ok,
             <<Access("read", "u8", c.pc, r.v, TRUE)>>, NoExec, r.v)
     : r \in BusRead(mem, c.pc, "u8")}

\* AfterBudget with the delay count rounded up.
AfterBudget_RoundUp(c) ==
    IF c.remaining_cycles > 0
    THEN [c EXCEPT !.state = Delay(c.remaining_cycles \div 4)]
    ELSE [c EXCEPT !.state = FetchOpcode, !.executing = FALSE]

\* AfterBudget leaving executing set when the instruction is over.
AfterBudget_KeepExecuting(c) ==
    IF c.remaining_cycles > 0
    THEN [c EXCEPT !.state = Delay((c.remaining_cycles - 1) \div 4)]
    ELSE [c EXCEPT !.state = FetchOpcode]

\* The state exec() and writeback() pick from the remaining budget.
AfterBudget(c) ==
    IF c.remaining_cycles > 0
    THEN [c EXCEPT !.state = Delay((c.remaining_cycles - 1) \div 4)]
    ELSE [c EXCEPT !.state = FetchOpcode, !.executing = FALSE]

\* What a successful op() / op_cb() leaves in the CPU.
ApplyEffect(c, e) ==
    [c EXCEPT !.branch_taken = (c.branch_taken \/ e.taken),
              !.write_op = IF e.wop # None THEN e.wop ELSE c.write_op,
              !.pc = e.pc,
              !.should_halt = e.halt]

\* The branch adjustment of exec().
AdjustBranch(c) ==
    IF c.branch_taken
    THEN [c EXCEPT !.remaining_cycles =
                       U8(c.remaining_cycles + (c.info.taken - c.info.untaken))]
    ELSE c

\* CPU::exec
exec(c, mem, log) ==
    LET xin == [ran |-> TRUE, operand |-> c.operand, wop |-> c.write_op] IN
    {IF e.res # Ok
     THEN PR(c, mem, e.res, log, xin, 0)
     ELSE LET c1 == AdjustBranch(ApplyEffect(c, e)) IN
          IF c1.write_op # None
          THEN PR([c1 EXCEPT !.state = Writeback], mem, Ok, log, xin, 0)
          ELSE PR(AfterBudget(c1), mem, Ok, log, xin, 0)
     : e \in IF ~c.cb_mode THEN Op(c) ELSE OpCb(c)}

\* ResetForOpcode without `self.operand = 0`.
ResetForOpcode_KeepOperand(c, op) ==
    [c EXCEPT !.opcode = op,
              !.info = OPCODES(op),
              !.cb_mode = (op = PrefixCB),
              !.write_op = None,
              !.executing = TRUE,
              !.branch_taken = FALSE,
              !.remaining_cycles = U8(OPCODES(op).untaken - 4)]

\* The reset of fetch_opcode() once the opcode byte is there.
ResetForOpcode(c, op) ==
    [c EXCEPT !.opcode = op,
              !.info = OPCODES(op),
              !.operand = 0,
              !.cb_mode = (op = PrefixCB),
              !.write_op = None,
              !.executing = TRUE,
              !.branch_taken = FALSE,
              !.remaining_cycles = U8(OPCODES(op).untaken - 4)]

\* fetch_opcode with the breakpoint check after the fetch.
fetch_opcode_FetchFirst(c, mem) ==
    UNION {
        IF f.res # Ok THEN {f}
        ELSE IF ~c.paused /\ c.pc \in c.breakpoints
        THEN {PR([f.c EXCEPT !.paused = TRUE], mem, Breakpoint(c.pc), f.log, NoExec, 0)}
        ELSE LET c1 == ResetForOpcode(f.c, f.v) IN
             IF c1.info.size > 1
             THEN {PR([c1 EXCEPT !.state = FetchByte0], mem, Ok, f.log, NoExec, 0)}
             ELSE IF IsMemory(c1.info.src)
             THEN {PR([c1 EXCEPT !.state = FetchMemory], mem, Ok, f.log, NoExec, 0)}
             ELSE exec(c1, mem, f.log)
        : f \in fetch_pc([c EXCEPT !.paused = FALSE], mem)}

\* fetch_opcode without the resume() of its else branch.
fetch_opcode_NoResume(c, mem) ==
    IF ~c.paused /\ c.pc \in c.breakpoints
    THEN {PR([c EXCEPT !.paused = TRUE], mem, Breakpoint(c.pc), <<>>, NoExec, 0)}
    ELSE UNION {
        IF f.res # Ok THEN {f}
        ELSE LET c1 == ResetForOpcode(f.c, f.v) IN
             IF c1.info.size > 1
             THEN {PR([c1 EXCEPT !.state = FetchByte0], mem, Ok, f.log, NoExec, 0)}
             ELSE IF IsMemory(c1.info.src)
             THEN {PR([c1 EXCEPT !.state = FetchMemory], mem, Ok, f.log, NoExec, 0)}
             ELSE exec(c1, mem, f.log)
        : f \in fetch_pc(c, mem)}

\* CPU::fetch_opcode
fetch_opcode(c, mem) ==
    IF ~c.paused /\ c.pc \in c.breakpoints
    THEN {PR([c EXCEPT !.paused = TRUE], mem, Breakpoint(c.pc), <<>>, NoExec, 0)}
    ELSE UNION {
        IF f.res # Ok THEN {f}
        ELSE LET c1 == ResetForOpcode(f.c, f.v) IN
             IF c1.info.size > 1
             THEN {PR([c1 EXCEPT !.state = FetchByte0], mem, Ok, f.log, NoExec, 0)}
             ELSE IF IsMemory(c1.info.src)
             THEN {PR([c1 EXCEPT !.state = FetchMemory], mem, Ok, f.log, NoExec, 0)}
             ELSE exec(c1, mem, f.log)
        : f \in fetch_pc([c EXCEPT !.paused = FALSE], mem)}

\* DecodeCB leaving the operand location of the prefix in place.
DecodeCB_NoMemory(c) ==
    IF ~c.cb_mode THEN c
    ELSE LET c1 == [c EXCEPT !.opcode = c.operand % 256] IN
         IF c.operand % 8 = 6
         THEN [c1 EXCEPT !.remaining_cycles = U8(c.remaining_cycles + 8)]
         ELSE c1

\* The CB handling of fetch_immediate() in FetchByte0.
DecodeCB(c) ==
    IF ~c.cb_mode THEN c
    ELSE LET c1 == [c EXCEPT !.opcode = c.operand % 256] IN
         IF c.operand % 8 = 6
         THEN [c1 EXCEPT !.info.src = "MemHL",
                         !.remaining_cycles = U8(c.remaining_cycles + 8)]
         ELSE c1

\* fetch_immediate going on to FetchByte1 for every instruction longer than
\* one byte.
fetch_immediate_AlwaysByte1(c, mem) ==
    UNION {
        IF f.res # Ok THEN {f}
        ELSE IF c.state = FetchByte0
        THEN LET c1 == DecodeCB([f.c EXCEPT !.operand = BitOr(f.c.operand, f.v)]) IN
             IF c1.info.size > 1
             THEN {PR([c1 EXCEPT !.state = FetchByte1], mem, Ok, f.log, NoExec, 0)}
             ELSE IF IsMemory(c1.info.src)
             THEN {PR([c1 EXCEPT !.state = FetchMemory], mem, Ok, f.log, NoExec, 0)}
             ELSE exec(c1, mem, f.log)
        ELSE LET c1 == [f.c EXCEPT !.operand = BitOr(f.c.operand, f.v * 256)] IN
             IF IsMemory(c1.info.src)
             THEN {PR([c1 EXCEPT !.state = FetchMemory], mem, Ok, f.log, NoExec, 0)}
             ELSE exec(c1, mem, f.log)
        : f \in fetch_pc(c, mem)}

\* CPU::fetch_immediate
fetch_immediate(c, mem) ==
    UNION {
        IF f.res # Ok THEN {f}
        ELSE IF c.state = FetchByte0
        THEN LET c1 == DecodeCB([f.c EXCEPT !.operand = BitOr(f.c.operand, f.v)]) IN
             IF c1.info.size > 2
             THEN {PR([c1 EXCEPT !.state = FetchByte1], mem, Ok, f.log, NoExec, 0)}
             ELSE IF IsMemory(c1.info.src)
             THEN {PR([c1 EXCEPT !.state = FetchMemory], mem, Ok, f.log, NoExec, 0)}
             ELSE exec(c1, mem, f.log)
        ELSE LET c1 == [f.c EXCEPT !.operand = BitOr(f.c.operand, f.v * 256)] IN
             IF IsMemory(c1.info.src)
             THEN {PR([c1 EXCEPT !.state = FetchMemory], mem, Ok, f.log, NoExec, 0)}
             ELSE exec(c1, mem, f.log)
        : f \in fetch_pc(c, mem)}

\* The address and width fetch_memory() reads for each addressing mode.
MemoryOperand(c) ==
    CASE c.info.src = "MemC" -> [addr |-> \hFF00 + RegC(c), T |-> "u8"]
      [] c.info.src = "MemIO" -> [addr |-> U16(\hFF00 + c.operand), T |-> "u8"]
      [] c.info.src = "MemBC" -> [addr |-> c.bc, T |-> "u8"]
      [] c.info.src = "MemDE" -> [addr |-> c.de, T |-> "u8"]
      [] c.info.src = "MemHL" -> [addr |-> c.hl, T |-> "u8"]
      [] c.info.src = "MemA16" -> [addr |-> c.operand, T |-> "u8"]
      [] c.info.src = "MemSP" -> [addr |-> c.sp, T |-> "u16"]

\* CPU::fetch_memory
fetch_memory(c, mem) ==
    LET m == MemoryOperand(c) IN
    UNION {
        IF r.res # Ok
        THEN {PR(c, mem, r.res, <<Access("read", m.T, m.addr, 0, FALSE)>>, NoExec, 0)}
        ELSE LET c1 == [c EXCEPT !.operand = r.v,
                                 !.sp = IF c.info.src = "MemSP" THEN U16(c.sp + 2)
                                        ELSE c.sp]
             IN  exec(c1, mem, <<Access("read", m.T, m.addr, r.v, TRUE)>>)
        : r \in BusRead(mem, m.addr, m.T)}

\* writeback with Push storing at sp before it moves sp.
writeback_PushAfter(c, mem) ==
    LET c1 == AfterBudget(c)
        w == c.write_op
    IN
    CASE w.op = "Write8" ->
            LET r == BusWrite(mem, w.dest, "u8", w.val) IN
            {PR(c1, r.mem, r.res, <<Access("write", "u8", w.dest, w.val, r.res = Ok)>>, NoExec, 0)}
      [] w.op = "Write16" ->
            LET r == BusWrite(mem, w.dest, "u16", w.val) IN
            {PR(c1, r.mem, r.res, <<Access("write", "u16", w.dest, w.val, r.res = Ok)>>, NoExec, 0)}
      [] w.op = "Push" ->
            LET c2 == [c1 EXCEPT !.sp = U16(c1.sp - 2)]
                r == BusWrite(mem, c1.sp, "u16", w.val)
            IN  {PR(c2, r.mem, r.res, <<Access("write", "u16", c1.sp, w.val, r.res = Ok)>>, NoExec, 0)}
      [] w.op = "Return" ->
            {IF r.res # Ok
             THEN PR(c1, mem, r.res, <<Access("read", "u16", c1.sp, 0, FALSE)>>, NoExec, 0)
             ELSE PR([c1 EXCEPT !.pc = r.v, !.sp = U16(c1.sp + 2)], mem, Ok,
                     <<Access("read", "u16", c1.sp, r.v, TRUE)>>, NoExec, r.v)
             : r \in BusRead(mem, c1.sp, "u16")}
      [] OTHER -> {PR(c1, mem, Ok, <<>>, NoExec, 0)}

\* CPU::writeback.  `self.sp -= 2` and `self.sp += 2` wrap here: a build with
\* overflow checks panics in tick, on the tick that fetches the opcode, before
\* any instruction reaches Writeback.
writeback(c, mem) ==
    LET c1 == AfterBudget(c)
        w == c.write_op
    IN
    CASE w.op = "Write8" ->
            LET r == BusWrite(mem, w.dest, "u8", w.val) IN
            {PR(c1, r.mem, r.res, <<Access("write", "u8", w.dest, w.val, r.res = Ok)>>, NoExec, 0)}
      [] w.op = "Write16" ->
            LET r == BusWrite(mem, w.dest, "u16", w.val) IN
            {PR(c1, r.mem, r.res, <<Access("write", "u16", w.dest, w.val, r.res = Ok)>>, NoExec, 0)}
      [] w.op = "Push" ->
            LET c2 == [c1 EXCEPT !.sp = U16(c1.sp - 2)]
                r == BusWrite(mem, c2.sp, "u16", w.val)
            IN  {PR(c2, r.mem, r.res, <<Access("write", "u16", c2.sp, w.val, r.res = Ok)>>, NoExec, 0)}
      [] w.op = "Return" ->
            {IF r.res # Ok
             THEN PR(c1, mem, r.res, <<Access("read", "u16", c1.sp, 0, FALSE)>>, NoExec, 0)
             ELSE PR([c1 EXCEPT !.pc = r.v, !.sp = U16(c1.sp + 2)], mem, Ok,
                     <<Access("read", "u16", c1.sp, r.v, TRUE)>>, NoExec, r.v)
             : r \in BusRead(mem, c1.sp, "u16")}
      [] OTHER -> {PR(c1, mem, Ok, <<>>, NoExec, 0)}

\* delay with every Delay(n) going straight to FetchOpcode.
delay_Skip(c, mem) ==
    {PR([c EXCEPT !.state = FetchOpcode, !.executing = FALSE], mem, Ok, <<>>, NoExec, 0)}

\* The two Delay arms of tick().
delay(c, mem) ==
    IF c.state.n = 0
    THEN {PR([c EXCEPT !.state = FetchOpcode, !.executing = FALSE], mem, Ok, <<>>, NoExec, 0)}
    ELSE {PR([c EXCEPT !.state = Delay(c.state.n - 1)], mem, Ok, <<>>, NoExec, 0)}

\* The `match self.state` of tick().
RunPhase(c, mem) ==
    CASE c.state.tag = "FetchOpcode" -> fetch_opcode(c, mem)
      [] c.state.tag = "FetchByte0" -> fetch_immediate(c, mem)
      [] c.state.tag = "FetchByte1" -> fetch_immediate(c, mem)
      [] c.state.tag = "FetchMemory" -> fetch_memory(c, mem)
      [] c.state.tag = "Writeback" -> writeback(c, mem)
      [] c.state.tag = "Delay" -> delay(c, mem)

\* What a tick hands back: the CPU and memory it leaves, the Result it returns
\* (ret), the Result of its phase (res), the phase's bus accesses, what exec() was
\* entered with, and should_halt as the phase left it.
TR(c, mem, ret, p) ==
    [c |-> c, mem |-> mem, ret |-> ret, res |-> p.res, log |-> p.log,
     xin |-> p.xin, halt_req |-> p.c.should_halt]

\* Settle restoring the snapshot when the speed-switch request is absorbed.
Settle_RestoreOnSwitch(saved, p) ==
    CASE p.res = Panic -> TR(saved, p.mem, Panic, p)
      [] p.res = CgbSpeedSwitchReq ->
            TR([saved EXCEPT !.ignore_next_halt = TRUE], p.mem, Ok, p)
      [] p.res # Ok /\ p.res # Panic /\ p.res # CgbSpeedSwitchReq ->
            TR(saved, p.mem, p.res, p)
      [] OTHER ->
            IF p.c.should_halt /\ p.c.ignore_next_halt
            THEN TR([p.c EXCEPT !.ignore_next_halt = FALSE, !.should_halt = FALSE],
                    p.mem, Ok, p)
            ELSE TR(p.c, p.mem, Ok, p)

\* Settle without `*self = saved_ctx`.
Settle_NoRestore(saved, p) ==
    CASE p.res = Panic -> TR(saved, p.mem, Panic, p)
      [] p.res = CgbSpeedSwitchReq ->
            TR([p.c EXCEPT !.ignore_next_halt = TRUE], p.mem, Ok, p)
      [] p.res # Ok /\ p.res # Panic /\ p.res # CgbSpeedSwitchReq ->
            TR(p.c, p.mem, p.res, p)
      [] OTHER ->
            IF p.c.should_halt /\ p.c.ignore_next_halt
            THEN TR([p.c EXCEPT !.ignore_next_halt = FALSE, !.should_halt = FALSE],
                    p.mem, Ok, p)
            ELSE TR(p.c, p.mem, Ok, p)

\* Settle without the speed-switch arm: the request is handled as any error.
Settle_Propagate(saved, p) ==
    CASE p.res = Panic -> TR(saved, p.mem, Panic, p)
      [] p.res # Ok /\ p.res # Panic ->
            TR(saved, p.mem, p.res, p)
      [] OTHER ->
            IF p.c.should_halt /\ p.c.ignore_next_halt
            THEN TR([p.c EXCEPT !.ignore_next_halt = FALSE, !.should_halt = FALSE],
                    p.mem, Ok, p)
            ELSE TR(p.c, p.mem, Ok, p)

\* The Err arm of tick arming the pause state after it restored the snapshot.
Settle_PauseOnError(saved, p) ==
    CASE p.res = Panic -> TR(saved, p.mem, Panic, p)
      [] p.res = CgbSpeedSwitchReq ->
            TR([p.c EXCEPT !.ignore_next_halt = TRUE], p.mem, Ok, p)
      [] p.res # Ok /\ p.res # Panic /\ p.res # CgbSpeedSwitchReq ->
            TR([saved EXCEPT !.paused = TRUE], p.mem, p.res, p)
      [] OTHER ->
            IF p.c.should_halt /\ p.c.ignore_next_halt
            THEN TR([p.c EXCEPT !.ignore_next_halt = FALSE, !.should_halt = FALSE],
                    p.mem, Ok, p)
            ELSE TR(p.c, p.mem, Ok, p)

\* Settle with a halt workaround that never clears ignore_next_halt.
Settle_KeepFlag(saved, p) ==
    CASE p.res = Panic -> TR(saved, p.mem, Panic, p)
      [] p.res = CgbSpeedSwitchReq ->
            TR([p.c EXCEPT !.ignore_next_halt = TRUE], p.mem, Ok, p)
      [] p.res # Ok /\ p.res # Panic /\ p.res # CgbSpeedSwitchReq ->
            TR(saved, p.mem, p.res, p)
      [] OTHER ->
            IF p.c.should_halt /\ p.c.ignore_next_halt
            THEN TR([p.c EXCEPT !.should_halt = FALSE], p.mem, Ok, p)
            ELSE TR(p.c, p.mem, Ok, p)

\* The `match res` of tick(): absorb the speed-switch request, restore the saved
\* context on any other error, apply the halt workaround on success.
Settle(saved, p) ==
    CASE p.res = Panic -> TR(saved, p.mem, Panic, p)
      [] p.res = CgbSpeedSwitchReq ->
            TR([p.c EXCEPT !.ignore_next_halt = TRUE], p.mem, Ok, p)
      [] p.res # Ok /\ p.res # Panic /\ p.res # CgbSpeedSwitchReq ->
            TR(saved, p.mem, p.res, p)
      [] OTHER ->
            IF p.c.should_halt /\ p.c.ignore_next_halt
            THEN TR([p.c EXCEPT !.ignore_next_halt = FALSE, !.should_halt = FALSE],
                    p.mem, Ok, p)
            ELSE TR(p.c, p.mem, Ok, p)

\* SpendCycles without the subtraction.
SpendCycles_Free(c) == c

\* `self.remaining_cycles -= 4` on a u8: below 4 it panics in a build with
\* overflow checks and wraps in one without.
SpendCycles(c) == [c EXCEPT !.remaining_cycles = U8(c.remaining_cycles - 4)]

\* CPU::tick
tick(c, mem, checks) ==
    IF checks /\ c.remaining_cycles < 4
    THEN {TR(c, mem, Panic, PR(c, mem, Panic, <<>>, NoExec, 0))}
    ELSE {Settle(c, p) : p \in RunPhase(SpendCycles(c), mem)}

-----------------------------------------------------------------------------
(* The engine and its driver *)

\* CPU::default().  The registers are public fields: the driver loads them before
\* the first tick, here with zero (power-on) or with the state a boot ROM leaves.
Default(regs) ==
    [af |-> regs.af, bc |-> regs.bc, de |-> regs.de, hl |-> regs.hl,
     sp |-> regs.sp, pc |-> regs.pc,
     halted |-> FALSE, halt_bug |-> FALSE, should_halt |-> FALSE,
     intr_enabled |-> FALSE,
     state |-> FetchOpcode, info |-> OPCODES(0), opcode |-> 0, cb_mode |-> FALSE,
     operand |-> 0, write_op |-> None, executing |-> FALSE,
     branch_taken |-> FALSE, remaining_cycles |-> 0,
     paused |-> FALSE, breakpoints |-> {},
     ignore_next_halt |-> FALSE]

BootRegs ==
    {[af |-> 0, bc |-> 0, de |-> 0, hl |-> 0, sp |-> 0, pc |-> 0],
     [af |-> \h01B0, bc |-> \h0013, de |-> \h00D8, hl |-> \hC000, sp |-> \hFFF0,
      pc |-> \h0150]}

\* The code a ROM image holds at the address the engine starts at; the rest of the
\* image is zero (NOP).  One image per shape of instruction, plus the sequences
\* the halt workaround needs.
RomCode ==
    {<<\h00, \h76, \h76>>,        \* NOP; HALT; HALT
     <<\h10, \h76, \h76>>,        \* STOP; HALT; HALT
     <<\h06, \h42>>,              \* LD B,d8
     <<\h08, \h00, \hC0>>,        \* LD (C000),SP
     <<\h08, \hA0, \hFE>>,        \* LD (FEA0),SP: no range claims FEA0
     <<\h08, \hFE, \hFF>>,        \* LD (FFFE),SP: the last byte of HRAM
     <<\h0A>>,                    \* LD A,(BC)
     <<\h1A>>,                    \* LD A,(DE)
     <<\h36, \h42, \h00>>,        \* LD (HL),d8
     <<\h7E>>,                    \* LD A,(HL)
     <<\hC0>>,                    \* RET NZ
     <<\hC1, \h76>>,              \* POP BC; HALT
     <<\hC4, \h00, \hC0>>,        \* CALL NZ,C000
     <<\hC5>>,                    \* PUSH BC
     <<\hCB, \h06, \h76>>,        \* RLC (HL); HALT
     <<\hCB, \h00, \h76>>,        \* RLC B; HALT
     <<\hCB, \h46>>,              \* BIT 0,(HL)
     <<\hCB, \h40>>,              \* BIT 0,B
     <<\hD3>>,                    \* not an instruction
     <<\hF0, \h80>>,              \* LDH A,(FF80)
     <<\hF0, \h06>>,              \* LDH A,(FF06): no range claims FF06
     <<\hF2>>,                    \* LD A,(C)
     <<\hFA, \h00, \hC0>>}        \* LD A,(C000)

\* Bus::new(rom) for an image that is zero up to `base` and holds `code` there:
\* the bytes of the first 0x4000 chunk are written to rom_00 at their index.
LoadRom(base, code) ==
    [k \in {<<"rom_00", base + i - 1>> : i \in 1..Len(code)} |-> code[k[2] - base + 1]]

\* Addresses the debugger arms breakpoints at.
BreakAddrs == {\h0150, \h0001}

\* Option<dbg::TraceEvent>::None
NoEvent == Event("None", 0)

\* EmuState::new: the front end's flags once the ROM is loaded.  snd_sink is
\* TRUE when an audio queue is attached (Some) and FALSE when none is (None).
EmuNew ==
    [snd_sink |-> FALSE, turbo_mode |-> FALSE, step_to_next |-> FALSE,
     run_to_breakpoint |-> FALSE, trace_event |-> NoEvent]

NoTick ==
    [kind |-> "none", from |-> FetchOpcode, res |-> Ok, ret |-> Ok, log |-> <<>>,
     xin |-> NoExec, halt_req |-> FALSE, was_armed |-> 0]

BusIdle ==
    [op |-> "none", addr |-> 0, sel |-> Invalid, st |-> "ok", v |-> 0,
     written |-> FALSE, wv |-> 0]

Init ==
    /\ emu = EmuNew
    /\ cpu \in {Default(r) : r \in BootRegs}
    /\ cells \in {LoadRom(cpu.pc, code) : code \in RomCode}
    /\ panicked = FALSE
    /\ overflow_checks \in BOOLEAN
    /\ last = NoTick
    /\ ticks = 0
    /\ clean = TRUE
    /\ armed = 0
    /\ steps = 0
    /\ bus_addr = 0
    /\ bus_pc = "idle"
    /\ bus_last = BusIdle

\* One call of cpu.tick(bus) by the driver.
Tick ==
    /\ ~panicked
    /\ steps < MaxTicks
    /\ \E out \in tick(cpu, cells, overflow_checks) :
        /\ cpu' = out.c
        /\ cells' = out.mem
        /\ panicked' = (out.ret = Panic)
        /\ last' = [kind |-> "tick", from |-> cpu.state, res |-> out.res,
                    ret |-> out.ret, log |-> out.log, xin |-> out.xin,
                    halt_req |-> out.halt_req, was_armed |-> armed]
        /\ ticks' = IF cpu.state = FetchOpcode THEN 1 ELSE ticks + 1
        /\ clean' = IF cpu.state = FetchOpcode THEN out.res = Ok
                    ELSE clean /\ out.res = Ok
        /\ armed' = CASE out.res = CgbSpeedSwitchReq -> 1
                      [] out.res = Ok /\ out.halt_req /\ armed = 1 -> 2
                      [] OTHER -> armed
    /\ steps' = steps + 1
    /\ UNCHANGED <<overflow_checks, bus_vars, emu>>

\* CPU::set_breakpoint
SetBreakpoint ==
    /\ ~panicked
    /\ \E a \in BreakAddrs :
        cpu' = [cpu EXCEPT !.breakpoints = cpu.breakpoints \cup {a}]
    /\ last' = NoTick
    /\ UNCHANGED <<cells, panicked, overflow_checks, ticks, clean, armed, steps, bus_vars, emu>>

\* CPU::clear_breakpoint
ClearBreakpoint ==
    /\ ~panicked
    /\ \E a \in BreakAddrs :
        cpu' = [cpu EXCEPT !.breakpoints = cpu.breakpoints \ {a}]
    /\ last' = NoTick
    /\ UNCHANGED <<cells, panicked, overflow_checks, ticks, clean, armed, steps, bus_vars, emu>>

\* CPU::pause
Pause ==
    /\ ~panicked
    /\ cpu' = [cpu EXCEPT !.paused = TRUE]
    /\ last' = NoTick
    /\ UNCHANGED <<cells, panicked, overflow_checks, ticks, clean, armed, steps, bus_vars, emu>>

Next == Tick \/ SetBreakpoint \/ ClearBreakpoint \/ Pause

Spec == Init /\ [][Next]_vars

-----------------------------------------------------------------------------
(* Interrupt service: the engine of Spec with a driver that may also call      *)
(* jump_to_isr between any two ticks.                                          *)

\* The interrupt vectors the driver jumps to.
IsrVectors == {\h0040, \h0050}

\* What jump_to_isr hands back: the CPU and memory it leaves, its Result and its
\* bus accesses.
IR(c, mem, res, log) == [c |-> c, mem |-> mem, res |-> res, log |-> log]

\* jump_to_isr storing pc before it moves sp.
jump_to_isr_WriteFirst(c, mem, addr, checks) ==
    IF checks /\ c.sp < 2
    THEN IR(c, mem, Panic, << >>)
    ELSE LET r == BusWrite(mem, c.sp, "u16", c.pc)
             c1 == [c EXCEPT !.sp = U16(c.sp - 2)]
             log == <<Access("write", "u16", c.sp, c.pc, r.res = Ok)>>
         IN  IF r.res # Ok THEN IR(c1, r.mem, r.res, log)
             ELSE IR([c1 EXCEPT !.pc = addr], r.mem, Ok, log)

\* jump_to_isr restoring the CPU when the write fails.
jump_to_isr_Transactional(c, mem, addr, checks) ==
    IF checks /\ c.sp < 2
    THEN IR(c, mem, Panic, << >>)
    ELSE LET c1 == [c EXCEPT !.sp = U16(c.sp - 2)]
             r == BusWrite(mem, c1.sp, "u16", c.pc)
             log == <<Access("write", "u16", c1.sp, c.pc, r.res = Ok)>>
         IN  IF r.res # Ok THEN IR(c, r.mem, r.res, log)
             ELSE IR([c1 EXCEPT !.pc = addr], r.mem, Ok, log)

\* CPU::jump_to_isr.  `self.sp -= 2` panics below 2 in a build with overflow
\* checks and wraps in one without; a failed write returns before pc is set, with
\* sp already moved.
jump_to_isr(c, mem, addr, checks) ==
    IF checks /\ c.sp < 2
    THEN IR(c, mem, Panic, << >>)
    ELSE LET c1 == [c EXCEPT !.sp = U16(c.sp - 2)]
             r == BusWrite(mem, c1.sp, "u16", c.pc)
             log == <<Access("write", "u16", c1.sp, c.pc, r.res = Ok)>>
         IN  IF r.res # Ok THEN IR(c1, r.mem, r.res, log)
             ELSE IR([c1 EXCEPT !.pc = addr], r.mem, Ok, log)

\* One call of cpu.jump_to_isr(bus, vector) by the driver, which serves one
\* interrupt in a run.
JumpToIsr ==
    /\ ~panicked
    /\ steps < MaxTicks
    /\ bus_pc = "idle"
    /\ bus_pc' = "served"
    /\ \E vector \in IsrVectors :
        LET out == jump_to_isr(cpu, cells, vector, overflow_checks) IN
        /\ cpu' = out.c
        /\ cells' = out.mem
        /\ panicked' = (out.res = Panic)
        /\ last' = [kind |-> "isr", vector |-> vector, ret |-> out.res,
                    log |-> out.log, old |-> cpu]
    /\ steps' = steps + 1
    /\ UNCHANGED <<overflow_checks, ticks, clean, armed, bus_addr, bus_last, emu>>

IsrNext == Tick \/ SetBreakpoint \/ ClearBreakpoint \/ Pause \/ JumpToIsr

\* The registers the engine starts with: those of Spec, and a stack pointer set
\* two bytes above 0xFF00, an address no range of the bus claims.
IsrRegs ==
    BootRegs
    \cup {[af |-> \h01B0, bc |-> \h0013, de |-> \h00D8, hl |-> \hC000,
           sp |-> \hFF02, pc |-> \h0150]}

IsrInit ==
    /\ emu = EmuNew
    /\ cpu \in {Default(r) : r \in IsrRegs}
    /\ cells \in {LoadRom(cpu.pc, code) : code \in RomCode}
    /\ panicked = FALSE
    /\ overflow_checks \in BOOLEAN
    /\ last = NoTick
    /\ ticks = 0
    /\ clean = TRUE
    /\ armed = 0
    /\ steps = 0
    /\ bus_addr = 0
    /\ bus_pc = "idle"
    /\ bus_last = BusIdle

IsrSpec == IsrInit /\ [][IsrNext]_vars

-----------------------------------------------------------------------------
(* The bus of bus.rs on its own: a freshly built bus, one write at the address *)
(* under test, then one read there or at its mirror in the echo ranges.  This  *)
(* bus panics on an address no range claims.                                   *)

\* Bytes written.
BusValues == {\h01, \hA5}

\* Where the read after a write at addr goes: the same address, and the address
\* 0x2000 above or below it when that pairs work RAM with its echo.
Probes(addr) ==
    {addr}
    \cup (IF \hC000 <= addr /\ addr <= \hDDFF THEN {addr + \h2000} ELSE {})
    \cup (IF \hE000 <= addr /\ addr <= \hFDFF THEN {addr - \h2000} ELSE {})

BusInit ==
    /\ emu = EmuNew
    /\ cpu = Default([af |-> 0, bc |-> 0, de |-> 0, hl |-> 0, sp |-> 0, pc |-> 0])
    /\ cells = << >>
    /\ panicked = FALSE
    /\ overflow_checks = FALSE
    /\ last = NoTick
    /\ ticks = 0
    /\ clean = TRUE
    /\ armed = 0
    /\ steps = 0
    /\ bus_addr \in 0..AddrMax
    /\ bus_pc = "idle"
    /\ bus_last = BusIdle

\* bus.write::<u8>(bus_addr, v)
BusWriteStep ==
    /\ ~panicked
    /\ bus_pc = "idle"
    /\ \E v \in BusValues :
        LET r == RawWrite(cells, bus_addr, "u8", v) IN
        /\ cells' = r.mem
        /\ panicked' = (r.st # "ok")
        /\ bus_last' = [op |-> "write", addr |-> bus_addr,
                        sel |-> WriteDispatch(bus_addr), st |-> r.st, v |-> v,
                        written |-> (r.st = "ok"), wv |-> v]
    /\ bus_pc' = "written"
    /\ UNCHANGED <<cpu_vars, bus_addr, emu>>

\* bus.read::<u8>(a)
BusReadStep ==
    /\ ~panicked
    /\ bus_pc \in {"idle", "written"}
    /\ \E a \in IF bus_pc = "idle" THEN {bus_addr} ELSE Probes(bus_addr) :
        \E r \in RawRead(cells, a, "u8") :
            /\ panicked' = (r.st # "ok")
            /\ bus_last' = [op |-> "read", addr |-> a, sel |-> ReadDispatch(a),
                            st |-> r.st, v |-> r.v,
                            written |-> bus_last.written, wv |-> bus_last.wv]
    /\ bus_pc' = "read"
    /\ UNCHANGED <<cpu_vars, cells, bus_addr, emu>>

BusNext == BusWriteStep \/ BusReadStep

BusSpec == BusInit /\ [][BusNext]_vars

-----------------------------------------------------------------------------
(* The bus of bus.rs under each access width: a freshly built bus, one sized   *)
(* write at the address under test, then one read of the same width there.     *)

\* The value written for each width.
AccessValues(T) ==
    CASE T = "u8" -> {\hA5}
      [] T = "i8" -> {0 - 91}
      [] T = "u16" -> {\h12A5}

AccessIdle ==
    [op |-> "none", T |-> "u8", addr |-> 0, sel |-> Invalid, st |-> "ok", v |-> 0,
     written |-> FALSE, wT |-> "u8", wv |-> 0]

AccessInit ==
    /\ emu = EmuNew
    /\ cpu = Default([af |-> 0, bc |-> 0, de |-> 0, hl |-> 0, sp |-> 0, pc |-> 0])
    /\ cells = << >>
    /\ panicked = FALSE
    /\ overflow_checks = FALSE
    /\ last = NoTick
    /\ ticks = 0
    /\ clean = TRUE
    /\ armed = 0
    /\ steps = 0
    /\ bus_addr \in 0..AddrMax
    /\ bus_pc = "idle"
    /\ bus_last = AccessIdle

\* bus.write::<T>(bus_addr, v)
AccessWrite ==
    /\ ~panicked
    /\ bus_pc = "idle"
    /\ \E T \in Widths : \E v \in AccessValues(T) :
        LET r == RawWrite(cells, bus_addr, T, v) IN
        /\ cells' = r.mem
        /\ panicked' = (r.st # "ok")
        /\ bus_last' = [op |-> "write", T |-> T, addr |-> bus_addr,
                        sel |-> WriteDispatch(bus_addr), st |-> r.st, v |-> v,
                        written |-> (r.st = "ok"), wT |-> T, wv |-> v]
    /\ bus_pc' = "written"
    /\ UNCHANGED <<cpu_vars, bus_addr, emu>>

\* bus.read::<T>(bus_addr): on the new bus with any width, after a write with the
\* width written.
AccessRead ==
    /\ ~panicked
    /\ bus_pc \in {"idle", "written"}
    /\ \E T \in IF bus_pc = "idle" THEN Widths ELSE {bus_last.wT} :
        \E r \in RawRead(cells, bus_addr, T) :
            /\ panicked' = (r.st # "ok")
            /\ bus_last' = [op |-> "read", T |-> T, addr |-> bus_addr,
                            sel |-> ReadDispatch(bus_addr), st |-> r.st, v |-> r.v,
                            written |-> bus_last.written, wT |-> bus_last.wT,
                            wv |-> bus_last.wv]
    /\ bus_pc' = "read"
    /\ UNCHANGED <<cpu_vars, cells, bus_addr, emu>>

AccessNext == AccessWrite \/ AccessRead

AccessSpec == AccessInit /\ [][AccessNext]_vars

-----------------------------------------------------------------------------
(* MemSize on a byte slice (bus.rs:5-53): one write_le at an offset of a small *)
(* buffer, then one read_le.                                                   *)

\* Length of the buffer.
SliceLen == 3

\* Bytes the buffer holds at the start.
SliceBytes == {\h00, \h7F, \h80, \hFF}

\* Values written, per width.
SizeValues(T) ==
    CASE T = "u8" -> {\h00, \hA5}
      [] T = "i8" -> {0 - 128, 0 - 1, 127}
      [] T = "u16" -> {\h12A5, \hFF00}

\* &buf[o..]
SliceFrom(buf, o) == SubSeq(buf, o + 1, Len(buf))

\* T::read_le(&buf[o..]): indexing past the end of the slice panics.
SliceRead(T, buf, o) ==
    LET sl == SliceFrom(buf, o) IN
    IF Len(sl) < ByteSize(T) THEN [st |-> "oob", v |-> 0]
    ELSE [st |-> "ok", v |-> ReadLe(T, sl[1], IF T = "u16" THEN sl[2] ELSE 0)]

\* T::write_le(&mut buf[o..], v): the bytes are stored in order, so a u16 stores
\* its low byte before the index of the high byte panics.
SliceWrite(T, buf, o, v) ==
    LET bytes == WriteLe(T, v)
        room == Len(buf) - o
        stored == [i \in 1..Len(buf) |->
                      IF i > o /\ i - o <= Len(bytes) THEN bytes[i - o] ELSE buf[i]]
    IN  [st |-> IF room < ByteSize(T) THEN "oob" ELSE "ok", buf |-> stored]

SizeIdle(buf) ==
    [op |-> "none", T |-> "u8", o |-> 0, v |-> 0, st |-> "ok", buf |-> buf,
     pre |-> buf, written |-> FALSE, wT |-> "u8", wo |-> 0, wv |-> 0]

SizeInit ==
    /\ emu = EmuNew
    /\ cpu = Default([af |-> 0, bc |-> 0, de |-> 0, hl |-> 0, sp |-> 0, pc |-> 0])
    /\ cells = << >>
    /\ panicked = FALSE
    /\ overflow_checks = FALSE
    /\ last = NoTick
    /\ ticks = 0
    /\ clean = TRUE
    /\ armed = 0
    /\ steps = 0
    /\ bus_addr = 0
    /\ bus_pc = "idle"
    /\ bus_last \in {SizeIdle(buf) : buf \in [1..SliceLen -> SliceBytes]}

\* T::write_le(&mut buf[o..], v)
SizeWrite ==
    /\ ~panicked
    /\ bus_pc = "idle"
    /\ \E T \in Widths : \E o \in 0..SliceLen : \E v \in SizeValues(T) :
        LET r == SliceWrite(T, bus_last.buf, o, v) IN
        /\ panicked' = (r.st # "ok")
        /\ bus_last' = [op |-> "write", T |-> T, o |-> o, v |-> v, st |-> r.st,
                        buf |-> r.buf, pre |-> bus_last.buf,
                        written |-> (r.st = "ok"), wT |-> T, wo |-> o, wv |-> v]
    /\ bus_pc' = "written"
    /\ UNCHANGED <<cpu_vars, cells, bus_addr, emu>>

\* T::read_le(&buf[o..])
SizeRead ==
    /\ ~panicked
    /\ bus_pc \in {"idle", "written"}
    /\ \E T \in Widths : \E o \in 0..SliceLen :
        LET r == SliceRead(T, bus_last.buf, o) IN
        /\ panicked' = (r.st # "ok")
        /\ bus_last' = [bus_last EXCEPT !.op = "read", !.T = T, !.o = o, !.v = r.v,
                                        !.st = r.st, !.pre = bus_last.buf]
    /\ bus_pc' = "read"
    /\ UNCHANGED <<cpu_vars, cells, bus_addr, emu>>

SizeNext == SizeWrite \/ SizeRead

SizeSpec == SizeInit /\ [][SizeNext]_vars

-----------------------------------------------------------------------------
(* The flag register (core.rs:391-410): one or two calls of a flag setter on a *)
(* CPU whose af the driver has loaded.                                         *)

\* Setter calls per behaviour.
MaxFlagCalls == 2

\* Accumulator values loaded.
FlagHighs == {\h00, \h01, \hA5, \hFF}

\* Arguments of set_f.
FlagArgs == {\h00, \h0F, \h10, \h5A, \hA5, \hF0, \hFF}

\* Bit b of x, and x with bit b cleared (x & !(1 << b)).
Bit(x, b) == (x \div (2 ^ b)) % 2
ClearBit(x, b) == x - Bit(x, b) * (2 ^ b)

\* CPU::f: (self.af & 0x00F0) as u8
get_f(c) == ((c.af % 256) \div 16) * 16

\* set_f with the argument stored unmasked.
set_f_NoMask(c, v) == [c EXCEPT !.af = (c.af \div 256) * 256 + v]

\* CPU::set_f: self.af = (self.af & 0xFF00) | u16::from(v & 0xF0)
set_f(c, v) == [c EXCEPT !.af = (c.af \div 256) * 256 + (v \div 16) * 16]

\* set_zf, set_sf, set_hc, set_cy: set_f((f() & !mask) | (u8::from(v) << bit))
SetFlagBit(c, b, v) == set_f(c, ClearBit(get_f(c), b) + (IF v THEN 2 ^ b ELSE 0))
set_zf(c, v) == SetFlagBit(c, 7, v)
set_sf(c, v) == SetFlagBit(c, 6, v)
set_hc(c, v) == SetFlagBit(c, 5, v)
set_cy(c, v) == SetFlagBit(c, 4, v)

\* CPU::zf, sf, hc, cy
zf(c) == Bit(get_f(c), 7) = 1
sf(c) == Bit(get_f(c), 6) = 1
hc(c) == Bit(get_f(c), 5) = 1
cy(c) == Bit(get_f(c), 4) = 1

FlagInit ==
    /\ emu = EmuNew
    /\ cpu \in {Default([af |-> hi * 256 + lo, bc |-> 0, de |-> 0, hl |-> 0,
                         sp |-> 0, pc |-> 0]) : hi \in FlagHighs, lo \in 0..255}
    /\ cells = << >>
    /\ panicked = FALSE
    /\ overflow_checks = FALSE
    /\ last = NoTick
    /\ ticks = 0
    /\ clean = TRUE
    /\ armed = 0
    /\ steps = 0
    /\ bus_addr = 0
    /\ bus_pc = "idle"
    /\ bus_last = BusIdle

\* What a setter call leaves behind in the history.
FlagCall(kind, bit, arg) ==
    [kind |-> kind, bit |-> bit, arg |-> arg, old |-> cpu]

SetF ==
    /\ steps < MaxFlagCalls
    /\ \E v \in FlagArgs :
        /\ cpu' = set_f(cpu, v)
        /\ last' = FlagCall("set_f", 0, v)
    /\ steps' = steps + 1
    /\ UNCHANGED <<cells, panicked, overflow_checks, ticks, clean, armed, bus_vars, emu>>

SetZf ==
    /\ steps < MaxFlagCalls
    /\ \E v \in BOOLEAN :
        /\ cpu' = set_zf(cpu, v)
        /\ last' = FlagCall("set_flag", 7, v)
    /\ steps' = steps + 1
    /\ UNCHANGED <<cells, panicked, overflow_checks, ticks, clean, armed, bus_vars, emu>>

SetSf ==
    /\ steps < MaxFlagCalls
    /\ \E v \in BOOLEAN :
        /\ cpu' = set_sf(cpu, v)
        /\ last' = FlagCall("set_flag", 6, v)
    /\ steps' = steps + 1
    /\ UNCHANGED <<cells, panicked, overflow_checks, ticks, clean, armed, bus_vars, emu>>

SetHc ==
    /\ steps < MaxFlagCalls
    /\ \E v \in BOOLEAN :
        /\ cpu' = set_hc(cpu, v)
        /\ last' = FlagCall("set_flag", 5, v)
    /\ steps' = steps + 1
    /\ UNCHANGED <<cells, panicked, overflow_checks, ticks, clean, armed, bus_vars, emu>>

SetCy ==
    /\ steps < MaxFlagCalls
    /\ \E v \in BOOLEAN :
        /\ cpu' = set_cy(cpu, v)
        /\ last' = FlagCall("set_flag", 4, v)
    /\ steps' = steps + 1
    /\ UNCHANGED <<cells, panicked, overflow_checks, ticks, clean, armed, bus_vars, emu>>

FlagNext == SetF \/ SetZf \/ SetSf \/ SetHc \/ SetCy

FlagSpec == FlagInit /\ [][FlagNext]_vars

-----------------------------------------------------------------------------
(* The video unit (video.rs) behind the bus: register and video-memory writes, *)
(* hsync and rasterize.  The arrays of the PPU are the cells "tdt", "bgtm0",   *)
(* "bgtm1", "oam" and "regs"; `steps` counts the calls of hsync and `bus_pc`   *)
(* the writes.                                                                 *)

\* The longest run of hsync calls from power-on.
MaxHsync == 310

\* The longest run of hsync calls once the driver has written to the unit.
MaxBurst == 2

\* The number of writes the driver makes.
MaxPokes == 2

\* The longest output buffer handed to rasterize.
MaxBuf == 4

\* The frame: 144 lines of 160 pixels, 3 bytes a pixel.
ScreenH == 144
ScreenW == 160
FrameBytes == ScreenH * ScreenW * 3

\* One byte of a PPU array; PPU::new zero-fills all of them.
PpuByte(mem, arr, i) == IF <<arr, i>> \in DOMAIN mem THEN mem[<<arr, i>>] ELSE 0

lcdc(mem) == PpuByte(mem, "regs", 0)
scroll_y(mem) == PpuByte(mem, "regs", 2)
scroll_x(mem) == PpuByte(mem, "regs", 3)
bgp(mem) == PpuByte(mem, "regs", 7)

\* PPU::shade: (self.bgp() >> (color * 2)) & 0x3 picks the shade.
shade(mem, color) ==
    LET s == (bgp(mem) \div (4 ^ color)) % 4 IN
    CASE s = 0 -> \hFF
      [] s = 1 -> \hAA
      [] s = 2 -> \h55
      [] s = 3 -> \h00

\* pixel with the two bit planes the other way round.
pixel_SwappedPlanes(mem, t, x, y) ==
    LET bl == PpuByte(mem, "tdt", t * 16 + y * 2)
        bh == PpuByte(mem, "tdt", t * 16 + y * 2 + 1)
    IN  Bit(bl, 7 - x) * 2 + Bit(bh, 7 - x)

\* Tile::pixel of tile t of the tile data table.
pixel(mem, t, x, y) ==
    LET bl == PpuByte(mem, "tdt", t * 16 + y * 2)
        bh == PpuByte(mem, "tdt", t * 16 + y * 2 + 1)
    IN  Bit(bh, 7 - x) * 2 + Bit(bl, 7 - x)

\* PPU::bg_tile: the index into tdt of the tile of map entry id.
bg_tile(mem, id) ==
    LET tile_id == IF Bit(lcdc(mem), 3) = 0
                   THEN PpuByte(mem, "bgtm0", id)
                   ELSE PpuByte(mem, "bgtm1", id)
    IN  IF Bit(lcdc(mem), 4) = 0
        THEN 128 + (IF tile_id >= 128 THEN tile_id - 256 ELSE tile_id)
        ELSE tile_id

\* The shade rasterize computes for pixel p of the frame, counted row by row.
PixelShade(mem, p) ==
    LET py == p \div ScreenW
        px == p % ScreenW
        y == (py + scroll_y(mem)) % 256
        x == (px + scroll_x(mem)) % 256
        t == bg_tile(mem, ((y \div 8) * 32) + (x \div 8))
    IN  shade(mem, pixel(mem, t, x % 8, y % 8))

\* rasterize testing bit 0 of the LCD control register.
rasterize_EnableBit0(mem, vbuf) ==
    IF Bit(lcdc(mem), 0) = 0
    THEN [st |-> "ok", vbuf |-> [i \in 1..Len(vbuf) |-> \hFF]]
    ELSE [st |-> IF Len(vbuf) < FrameBytes THEN "oob" ELSE "ok",
          vbuf |-> [i \in 1..Len(vbuf) |->
                       IF i <= FrameBytes THEN PixelShade(mem, (i - 1) \div 3)
                       ELSE vbuf[i]]]

\* PPU::rasterize(&self, vbuf).  With the display off every byte of vbuf becomes
\* 0xFF.  With it on, the bytes of the frame are written in increasing order,
\* three to a pixel, and the first index past the end of a buffer shorter than
\* the frame panics with the bytes before it written.
rasterize(mem, vbuf) ==
    IF Bit(lcdc(mem), 7) = 0
    THEN [st |-> "ok", vbuf |-> [i \in 1..Len(vbuf) |-> \hFF]]
    ELSE [st |-> IF Len(vbuf) < FrameBytes THEN "oob" ELSE "ok",
          vbuf |-> [i \in 1..Len(vbuf) |->
                       IF i <= FrameBytes THEN PixelShade(mem, (i - 1) \div 3)
                       ELSE vbuf[i]]]

\* PPU::hsync: self.regs[0x04] = (self.regs[0x04] + 1) % 154, the sum a u8:
\* at 255 it panics in a build with overflow checks and wraps to 0 in one without.
hsync(mem, checks) ==
    LET sum == PpuByte(mem, "regs", 4) + 1 IN
    IF sum > 255 /\ checks
    THEN [st |-> "overflow", mem |-> mem]
    ELSE [st |-> "ok", mem |-> Store(mem, <<"regs", 4>>, U8(sum) % 154)]

\* What the driver writes as its n-th write: the LCD control register, the
\* scroll registers, the palette, tile data and both tile maps, and, as its
\* first write only, any value of the scanline counter.
PpuPokes(n) ==
    {<<\hFF40, v>> : v \in {\h7F, \h80, \h91, \h88}}
    \cup {<<\hFF42, \h08>>, <<\hFF43, \h07>>}
    \cup {<<\hFF44, v>> : v \in IF n = 0 THEN 0..255 ELSE {}}
    \cup {<<\hFF47, v>> : v \in {\hE4, \h1B}}
    \cup {<<\h8000, \h80>>, <<\h8801, \h80>>, <<\h9800, \h01>>, <<\h9C00, \h80>>}

\* The buffers handed to rasterize: every length up to MaxBuf, none of them
\* holding the blank shade.
FrameBuffers ==
    {[i \in 1..n |-> IF i % 2 = 1 THEN \h00 ELSE \h55] : n \in 0..MaxBuf}

PpuIdle ==
    [op |-> "none", st |-> "ok", addr |-> 0, v |-> 0, vbuf |-> << >>,
     out |-> << >>, pre |-> << >>]

\* PPU::new behind a new bus, in either build.
PpuInit ==
    /\ emu = EmuNew
    /\ cpu = Default([af |-> 0, bc |-> 0, de |-> 0, hl |-> 0, sp |-> 0, pc |-> 0])
    /\ cells = << >>
    /\ panicked = FALSE
    /\ overflow_checks \in BOOLEAN
    /\ last = NoTick
    /\ ticks = 0
    /\ clean = TRUE
    /\ armed = 0
    /\ steps = 0
    /\ bus_addr = 0
    /\ bus_pc = 0
    /\ bus_last = PpuIdle

\* bus.write::<u8>(addr, v) on an address of the video unit; the driver sets
\* the unit up before its first hsync.
PpuWrite ==
    /\ ~panicked
    /\ steps = 0
    /\ bus_pc < MaxPokes
    /\ \E poke \in PpuPokes(bus_pc) :
        LET r == RawWrite(cells, poke[1], "u8", poke[2]) IN
        /\ cells' = r.mem
        /\ panicked' = (r.st # "ok")
        /\ bus_last' = [PpuIdle EXCEPT !.op = "write", !.st = r.st,
                           !.addr = poke[1], !.v = poke[2], !.pre = cells]
    /\ bus_pc' = bus_pc + 1
    /\ UNCHANGED <<cpu_vars, bus_addr, emu>>

\* ppu.hsync()
Hsync ==
    /\ ~panicked
    /\ steps < (IF bus_pc = 0 THEN MaxHsync ELSE MaxBurst)
    /\ LET r == hsync(cells, overflow_checks) IN
        /\ cells' = r.mem
        /\ panicked' = (r.st # "ok")
        /\ bus_last' = [PpuIdle EXCEPT !.op = "hsync", !.st = r.st, !.pre = cells]
    /\ steps' = steps + 1
    /\ UNCHANGED <<cpu, overflow_checks, last, ticks, clean, armed, bus_addr, bus_pc, emu>>

\* ppu.rasterize(&mut vbuf): the unit is borrowed shared and stays as it is.
Rasterize ==
    /\ ~panicked
    /\ \E vbuf \in FrameBuffers :
        LET r == rasterize(cells, vbuf) IN
        /\ panicked' = (r.st # "ok")
        /\ bus_last' = [PpuIdle EXCEPT !.op = "rasterize", !.st = r.st,
                           !.vbuf = vbuf, !.out = r.vbuf, !.pre = cells]
    /\ UNCHANGED <<cpu_vars, cells, bus_addr, bus_pc, emu>>

PpuNext == PpuWrite \/ Hsync \/ Rasterize

PpuSpec == PpuInit /\ [][PpuNext]_vars

-----------------------------------------------------------------------------
(* The video unit drawing whole frames: the driver sets a scene up write by    *)
(* write and then calls rasterize with a frame-sized buffer.  `bus_pc` counts  *)
(* the writes.                                                                 *)

\* The writes of a scene, in order, each with its alternatives: the LCD control
\* register (display on; unsigned indices from map 0, or signed from map 1), the
\* palette, the scroll registers, an entry of each map, and the low and the high
\* bit plane of the tiles the maps select.
SceneScript == <<
    {<<\hFF40, \h91>>, <<\hFF40, \h88>>},
    {<<\hFF47, \hE4>>, <<\hFF47, \h1B>>},
    {<<\hFF43, \h07>>, <<\hFF42, \hFD>>},
    {<<\h9800, \h81>>},
    {<<\h9801, \h01>>},
    {<<\h9C00, \h81>>},
    {<<\h9C01, \h7F>>},
    {<<\h8810, \hA5>>},
    {<<\h8811, \h33>>},
    {<<\h8010, \hA5>>},
    {<<\h8011, \hF0>>},
    {<<\h8001, \h0F>>},
    {<<\h8801, \h0F>>},
    {<<\h8FF0, \h3C>>} >>

\* The buffers of the front end: a frame of 160 x 144 pixels, 3 bytes a pixel,
\* none of them a shade.
FullBuffers == {[i \in 1..FrameBytes |-> \h11]}

FrameInit ==
    /\ emu = EmuNew
    /\ cpu = Default([af |-> 0, bc |-> 0, de |-> 0, hl |-> 0, sp |-> 0, pc |-> 0])
    /\ cells = << >>
    /\ panicked = FALSE
    /\ overflow_checks = FALSE
    /\ last = NoTick
    /\ ticks = 0
    /\ clean = TRUE
    /\ armed = 0
    /\ steps = 0
    /\ bus_addr = 0
    /\ bus_pc = 0
    /\ bus_last = PpuIdle

\* bus.write::<u8>(addr, v): the next write of the scene.
FrameWrite ==
    /\ ~panicked
    /\ bus_pc < Len(SceneScript)
    /\ \E poke \in SceneScript[bus_pc + 1] :
        LET r == RawWrite(cells, poke[1], "u8", poke[2]) IN
        /\ cells' = r.mem
        /\ panicked' = (r.st # "ok")
        /\ bus_last' = [PpuIdle EXCEPT !.op = "write", !.st = r.st,
                           !.addr = poke[1], !.v = poke[2], !.pre = cells]
    /\ bus_pc' = bus_pc + 1
    /\ UNCHANGED <<cpu_vars, bus_addr, emu>>

\* ppu.rasterize(&mut vbuf) on a frame-sized buffer, once, when the scene is
\* set up.  The record keeps the buffer as rasterize leaves it.
FrameRasterize ==
    /\ ~panicked
    /\ bus_pc = Len(SceneScript)
    /\ bus_last.op # "rasterize"
    /\ \E vbuf \in FullBuffers :
        LET r == rasterize(cells, vbuf) IN
        /\ panicked' = (r.st # "ok")
        /\ bus_last' = [PpuIdle EXCEPT !.op = "rasterize", !.st = r.st,
                           !.out = r.vbuf, !.pre = cells]
    /\ UNCHANGED <<cpu_vars, cells, bus_addr, bus_pc, emu>>

FrameNext == FrameWrite \/ FrameRasterize

FrameSpec == FrameInit /\ [][FrameNext]_vars

-----------------------------------------------------------------------------
(* Bus::new(rom) on whole images (bus.rs:79-108), and reads of the two ROM     *)
(* windows.  An image is its length and the bytes at a few marked offsets;     *)
(* every other byte of it is zero.                                             *)

\* rom.chunks(0x4000)
ChunkSize == \h4000

Image(len, offsets) ==
    [len |-> len, data |-> [k \in {o \in offsets : o < len} |-> (k % 251) + 1]]

ImageByte(img, k) == IF k \in DOMAIN img.data THEN img.data[k] ELSE 0

\* The marked offsets: the first and last byte of the first three banks, and
\* one more inside the first two.
RomOffsets == {\h0000, \h0002, \h3FFF, \h4000, \h4004, \h7FFF, \h8000, \hBFFF}

\* Image lengths: empty, a few bytes, one bank, two banks, and more.
RomLens == {\h0000, \h0003, \h4000, \h4005, \h8000, \h8001, \hC000}

\* The images: every length with every marked offset it contains set, and the
\* lengths past two banks also with the third bank all zero.
RomImages ==
    {Image(len, RomOffsets) : len \in RomLens}
    \cup {Image(len, {o \in RomOffsets : o < \h8000}) : len \in {\h8001, \hC000}}

\* The indices within a chunk at which some chunk of the image has a marked byte.
ChunkKeys(img) == {k % ChunkSize : k \in DOMAIN img.data}

\* One chunk of the image copied by `for (i, b) in chunk.iter().enumerate()`:
\* chunk 0 into rom_00, every later chunk into rom_nn, each at index i of the
\* block.
LoadChunk(mem, img, c) ==
    LET owner == IF c = 0 THEN "rom_00" ELSE "rom_nn"
        idx == {i \in ChunkKeys(img) : c * ChunkSize + i < img.len}
    IN  [key \in (DOMAIN mem) \cup {<<owner, i>> : i \in idx} |->
            IF key[1] = owner /\ key[2] \in idx
            THEN ImageByte(img, c * ChunkSize + key[2])
            ELSE mem[key]]

\* The chunks of the image from chunk c on, in order.
RECURSIVE LoadChunks(_, _, _)
LoadChunks(mem, img, c) ==
    IF c * ChunkSize >= img.len THEN mem
    ELSE LoadChunks(LoadChunk(mem, img, c), img, c + 1)

\* Bus::new(rom): zero-filled blocks, then the chunks of the image.
BusNew(img) == LoadChunks(<< >>, img, 0)

RomIdle(img) == [op |-> "none", addr |-> 0, st |-> "ok", v |-> 0, img |-> img]

RomInit ==
    /\ emu = EmuNew
    /\ cpu = Default([af |-> 0, bc |-> 0, de |-> 0, hl |-> 0, sp |-> 0, pc |-> 0])
    /\ \E img \in RomImages :
        /\ cells = BusNew(img)
        /\ bus_last = RomIdle(img)
    /\ panicked = FALSE
    /\ overflow_checks = FALSE
    /\ last = NoTick
    /\ ticks = 0
    /\ clean = TRUE
    /\ armed = 0
    /\ steps = 0
    /\ bus_addr = 0
    /\ bus_pc = "idle"

\* bus.read::<u8>(addr) in one of the two ROM windows, once on each bus.
RomRead ==
    /\ ~panicked
    /\ bus_pc = "idle"
    /\ \E addr \in \h0000..\h7FFF :
        \E r \in RawRead(cells, addr, "u8") :
            /\ bus_addr' = addr
            /\ panicked' = (r.st # "ok")
            /\ bus_last' = [bus_last EXCEPT !.op = "read", !.addr = addr,
                                            !.st = r.st, !.v = r.v]
    /\ bus_pc' = "read"
    /\ UNCHANGED <<cpu_vars, cells, emu>>

RomNext == RomRead

RomSpec == RomInit /\ [][RomNext]_vars

-----------------------------------------------------------------------------
(* The sprite table behind the bus: on a new bus, a byte is stored at one      *)
(* address of 0xFE00..0xFE9F, a byte is then written at the address under test, *)
(* and the first address is read back.                                         *)

\* The addresses the bus routes to the sprite table.
OamAddrs == \hFE00..\hFE9F

\* The byte stored at the address read back.
OamFill == \h5A

OamIdle ==
    [op |-> "none", addr |-> 0, st |-> "ok", v |-> 0, pre |-> 0, wv |-> 0]

OamInit ==
    /\ emu = EmuNew
    /\ cpu = Default([af |-> 0, bc |-> 0, de |-> 0, hl |-> 0, sp |-> 0, pc |-> 0])
    /\ cells = << >>
    /\ panicked = FALSE
    /\ overflow_checks = FALSE
    /\ last = NoTick
    /\ ticks = 0
    /\ clean = TRUE
    /\ armed = 0
    /\ steps = 0
    /\ bus_addr \in OamAddrs
    /\ bus_pc = "idle"
    /\ bus_last = OamIdle

\* bus.write::<u8>(p, 0x5A) at another sprite-table address p
OamPrepare ==
    /\ ~panicked
    /\ bus_pc = "idle"
    /\ \E p \in OamAddrs \ {bus_addr} :
        LET r == RawWrite(cells, p, "u8", OamFill) IN
        /\ cells' = r.mem
        /\ panicked' = (r.st # "ok")
        /\ bus_last' = [OamIdle EXCEPT !.op = "fill", !.addr = p, !.st = r.st]
    /\ bus_pc' = "filled"
    /\ UNCHANGED <<cpu_vars, bus_addr, emu>>

\* bus.read::<u8>(p), then bus.write::<u8>(bus_addr, v)
OamWrite ==
    /\ ~panicked
    /\ bus_pc = "filled"
    /\ \E v \in BusValues : \E b \in RawRead(cells, bus_last.addr, "u8") :
        LET r == RawWrite(cells, bus_addr, "u8", v) IN
        /\ cells' = r.mem
        /\ panicked' = (b.st # "ok" \/ r.st # "ok")
        /\ bus_last' = [bus_last EXCEPT !.op = "write", !.st = r.st, !.pre = b.v,
                                        !.wv = v]
    /\ bus_pc' = "written"
    /\ UNCHANGED <<cpu_vars, bus_addr, emu>>

\* bus.read::<u8>(p)
OamRead ==
    /\ ~panicked
    /\ bus_pc = "written"
    /\ \E r \in RawRead(cells, bus_last.addr, "u8") :
        /\ panicked' = (r.st # "ok")
        /\ bus_last' = [bus_last EXCEPT !.op = "read", !.st = r.st, !.v = r.v]
    /\ bus_pc' = "read"
    /\ UNCHANGED <<cpu_vars, cells, bus_addr, emu>>

OamNext == OamPrepare \/ OamWrite \/ OamRead

OamSpec == OamInit /\ [][OamNext]_vars

-----------------------------------------------------------------------------
(* The front end of ui/state.rs: EmuState, its mode setters and do_step, over  *)
(* the engine of Spec.  GameBoy is outside the sources at hand: its step() is  *)
(* taken to be one tick of the CPU on the bus, and run_for_vblank() a loop of  *)
(* steps that stops at the first event.                                        *)

\* Steps a run mode makes in one do_step when no event stops it.
MaxRun == 2

\* Calls of do_step per behaviour.
MaxCalls == 3

\* The code the ROMs of the driver's sessions hold at the start address.
DriverRoms ==
    {<<\h00, \h76, \h76>>,        \* NOP; HALT; HALT
     <<\h06, \h42>>,              \* LD B,d8
     <<\h08, \hA0, \hFE>>,        \* LD (FEA0),SP: no range claims FEA0
     <<\hD3>>}                    \* not an instruction

\* What a call on EmuState leaves: the flags, the CPU, the memory, the Result of
\* the last gb.step() and the number of gb.step() calls made.
DR(e, c, mem, ret, ran) == [e |-> e, c |-> c, mem |-> mem, ret |-> ret, ran |-> ran]

\* EmuState::paused
paused(e, c) == c.paused /\ ~(e.step_to_next \/ e.run_to_breakpoint)

\* pause clearing the flags only.
pause_FlagsOnly(d) ==
    [d EXCEPT !.e.turbo_mode = FALSE, !.e.step_to_next = FALSE,
              !.e.run_to_breakpoint = FALSE]

\* EmuState::pause
pause(d) ==
    [d EXCEPT !.e.turbo_mode = FALSE, !.e.step_to_next = FALSE,
              !.e.run_to_breakpoint = FALSE, !.c.paused = TRUE]

\* GameBoy::step
step(e, c, mem, checks) ==
    {DR(e, o.c, o.mem, o.ret, 1) : o \in tick(c, mem, checks)}

\* `gb.step()?` n times over: the first Err (or abort) ends the loop.
RECURSIVE run(_, _, _, _, _)
run(e, c, mem, checks, n) ==
    IF n = 0 THEN {DR(e, c, mem, Ok, 0)}
    ELSE UNION {IF d.ret # Ok THEN {d}
                ELSE {[r EXCEPT !.ran = r.ran + 1] :
                         r \in run(e, d.c, d.mem, checks, n - 1)} :
                d \in step(e, c, mem, checks)}

\* GameBoy::run_for_vblank, n + 1 steps away from the next vertical blank.
run_for_vblank(e, c, mem, checks, n) == run(e, c, mem, checks, n + 1)

\* EmuState::run_to_audio_sync, the queue n samples short of full and every step
\* adding one.
run_to_audio_sync(e, c, mem, checks, n) ==
    IF e.snd_sink THEN run(e, c, mem, checks, n) ELSE {DR(e, c, mem, Ok, 0)}

\* The `if let Err(ref evt) = res` of do_step.  An abort leaves nothing to pause.
StoreEvent(d) ==
    IF d.ret = Ok \/ d.ret = Panic THEN d
    ELSE pause([d EXCEPT !.e.trace_event = d.ret])

\* EmuState::do_step
do_step(e, c, mem, checks, n) ==
    IF paused(e, c) THEN {DR(e, c, mem, Ok, 0)}
    ELSE LET e0 == [e EXCEPT !.trace_event = NoEvent]
             res == IF e0.step_to_next
                    THEN {IF d.ret = Panic THEN d ELSE pause(d) :
                             d \in step(e0, c, mem, checks)}
                    ELSE IF e0.turbo_mode
                    THEN run_for_vblank(e0, c, mem, checks, n)
                    ELSE IF e0.run_to_breakpoint
                    THEN run_to_audio_sync(e0, c, mem, checks, n)
                    ELSE {DR(e0, c, mem, Ok, 0)}
         IN  {StoreEvent(d) : d \in res}

\* What `last` holds when the front end has just changed a mode.
NoStep == [kind |-> "set", was |-> EmuNew, was_paused |-> FALSE, ret |-> Ok, ran |-> 0]

DriverInit ==
    /\ emu = EmuNew
    /\ cpu \in {Default(r) : r \in BootRegs}
    /\ cells \in {LoadRom(cpu.pc, code) : code \in DriverRoms}
    /\ panicked = FALSE
    /\ overflow_checks \in BOOLEAN
    /\ last = NoStep
    /\ ticks = 0
    /\ clean = TRUE
    /\ armed = 0
    /\ steps = 0
    /\ bus_addr = 0
    /\ bus_pc = "idle"
    /\ bus_last = BusIdle

\* One call of do_step by the event loop.
DoStep ==
    /\ ~panicked
    /\ steps < MaxCalls
    /\ \E n \in 0..MaxRun :
        \E d \in do_step(emu, cpu, cells, overflow_checks, n) :
            /\ emu' = d.e
            /\ cpu' = d.c
            /\ cells' = d.mem
            /\ panicked' = (d.ret = Panic)
            /\ last' = [kind |-> "do_step", was |-> emu,
                        was_paused |-> paused(emu, cpu), ret |-> d.ret,
                        ran |-> d.ran]
    /\ steps' = steps + 1
    /\ UNCHANGED <<overflow_checks, ticks, clean, armed, bus_vars>>

\* EmuState::set_single_step
SetSingleStep ==
    /\ ~panicked
    /\ emu' = [emu EXCEPT !.step_to_next = TRUE]
    /\ last' = NoStep
    /\ UNCHANGED <<cpu, cells, panicked, overflow_checks, ticks, clean, armed, steps,
                   bus_vars>>

\* EmuState::set_running
SetRunning ==
    /\ ~panicked
    /\ emu' = [emu EXCEPT !.run_to_breakpoint = TRUE]
    /\ last' = NoStep
    /\ UNCHANGED <<cpu, cells, panicked, overflow_checks, ticks, clean, armed, steps,
                   bus_vars>>

\* EmuState::set_turbo
SetTurbo ==
    /\ ~panicked
    /\ \E enable \in BOOLEAN : emu' = [emu EXCEPT !.turbo_mode = enable]
    /\ last' = NoStep
    /\ UNCHANGED <<cpu, cells, panicked, overflow_checks, ticks, clean, armed, steps,
                   bus_vars>>

\* EmuState::set_audio_sink
SetAudioSink ==
    /\ ~panicked
    /\ emu' = [emu EXCEPT !.snd_sink = TRUE]
    /\ last' = NoStep
    /\ UNCHANGED <<cpu, cells, panicked, overflow_checks, ticks, clean, armed, steps,
                   bus_vars>>

\* EmuState::pause, called by the front end
EmuPause ==
    /\ ~panicked
    /\ LET d == pause(DR(emu, cpu, cells, Ok, 0)) IN
        /\ emu' = d.e
        /\ cpu' = d.c
    /\ last' = NoStep
    /\ UNCHANGED <<cells, panicked, overflow_checks, ticks, clean, armed, steps,
                   bus_vars>>

DriverNext ==
    DoStep \/ SetSingleStep \/ SetRunning \/ SetTurbo \/ SetAudioSink \/ EmuPause
        \/ SetBreakpoint

DriverSpec == DriverInit /\ [][DriverNext]_vars

-----------------------------------------------------------------------------
(* Properties of the execution engine (Spec) *)

\* The state a tick has just returned into.
TickDone == last.kind = "tick" /\ ~panicked

\* The step is one call of tick.
TickStep == steps' = steps + 1 /\ last'.kind = "tick"

\* The last tick closed an instruction none of whose ticks failed or had its
\* result absorbed.
InstructionDone == TickDone /\ clean /\ cpu.state = FetchOpcode

\* The cycles the metadata gives the instruction just closed.
MetadataCycles == IF cpu.branch_taken THEN cpu.info.taken ELSE cpu.info.untaken

\* The instruction just closed is CB-prefixed and its secondary opcode addresses (HL).
PrefixedHL == cpu.cb_mode /\ cpu.opcode % 8 = 6

\* C1 as stated: an instruction none of whose ticks fails takes U/4 ticks from the
\* tick that starts in FetchOpcode to the tick that returns to FetchOpcode when
\* its semantics did not set branch_taken, and Tk/4 ticks when they did.
C1_Original == InstructionDone => 4 * ticks = MetadataCycles

\* C1 amended: the tick count is U/4 (Tk/4 when branch_taken was set), plus 2 ticks
\* (8 cycles) for a CB-prefixed instruction whose secondary opcode has low three
\* bits 6, the (HL)-addressed ones.
C1_CycleBudget ==
    InstructionDone => 4 * ticks = MetadataCycles + (IF PrefixedHL THEN 8 ELSE 0)

\* A CB-prefixed (HL) instruction closed after 4 ticks, its metadata giving 8 cycles.
C1_Witness ==
    /\ InstructionDone
    /\ PrefixedHL
    /\ cpu.info.untaken = 8
    /\ ticks = 4

\* C2 as stated: a tick in FetchOpcode with pc in the breakpoint set and paused
\* false returns Breakpoint(pc), makes no bus access, leaves pc unchanged, and
\* paused() is true after it returns.
C2_BreakpointHit ==
    [][(/\ TickStep
        /\ ~panicked'
        /\ cpu.state = FetchOpcode
        /\ cpu.pc \in cpu.breakpoints
        /\ ~cpu.paused)
       => (/\ last'.ret = Breakpoint(cpu.pc)
           /\ last'.log = << >>
           /\ cpu'.pc = cpu.pc
           /\ cpu'.paused)]_vars

\* A tick has just reported a breakpoint at pc, and paused() is false.
C2_Witness ==
    /\ TickDone
    /\ last.from = FetchOpcode
    /\ last.ret = Breakpoint(cpu.pc)
    /\ cpu.pc \in cpu.breakpoints
    /\ ~cpu.paused

\* The writes of the last tick that went through are in memory.
WritesKept ==
    \A i \in DOMAIN last.log :
        (last.log[i].kind = "write" /\ last.log[i].done)
        => RawRead(cells, last.log[i].addr, last.log[i].T)
               = {[st |-> "ok", v |-> last.log[i].val]}

\* The events a phase fails with, the speed-switch request aside.
FatalEvents == {"Breakpoint", "InvalidAddress", "IllegalOpcode"}

\* C3: when the phase of a tick fails with an event other than the speed-switch
\* request, every field of the CPU is what it was before the tick, the event is
\* returned to the caller, and what the tick wrote to the bus stays written.
C3_RollbackOnFailure ==
    [][(TickStep /\ last'.res.ev \in FatalEvents)
       => (/\ cpu' = cpu
           /\ last'.ret = last'.res
           /\ WritesKept')]_vars

\* A Writeback tick that failed on an address no range claims: the phase had
\* already moved on, and the engine is back in Writeback.
C3_Witness ==
    /\ TickDone
    /\ last.from = Writeback
    /\ last.ret.ev = "InvalidAddress"
    /\ cpu.state = Writeback
    /\ cpu.write_op.op = "Write16"

\* C4: when the instruction semantics run by a tick signal the speed-switch
\* request, the tick returns Ok, sets ignore_next_halt, and keeps what the tick
\* did before (the pc advance of a fetch phase, the operand read by FetchMemory)
\* instead of restoring the snapshot.
C4_SpeedSwitchAbsorbed ==
    [][(TickStep /\ last'.res = CgbSpeedSwitchReq)
       => (/\ last'.xin.ran
           /\ last'.ret = Ok
           /\ cpu'.ignore_next_halt
           /\ (cpu.state.tag \in {"FetchOpcode", "FetchByte0", "FetchByte1"}
               => cpu'.pc = U16(cpu.pc + 1))
           /\ (cpu.state.tag = "FetchOpcode" => cpu'.opcode = last'.log[1].val)
           /\ (cpu.state.tag = "FetchMemory" => cpu'.operand = last'.log[1].val))]_vars

\* A tick in FetchByte0 absorbed the request: Ok returned, the flag set, the
\* operand byte kept.
C4_Witness ==
    /\ TickDone
    /\ last.from = FetchByte0
    /\ last.res = CgbSpeedSwitchReq
    /\ last.ret = Ok
    /\ cpu.ignore_next_halt
    /\ cpu.operand = \h42

\* C5: after a speed-switch request was absorbed, the first later tick that ends
\* successfully with should_halt set clears should_halt and ignore_next_halt; a
\* halt request after that one, or one with no absorbed request before it, leaves
\* should_halt set.
C5_OneShotHaltSuppression ==
    /\ cpu.ignore_next_halt = (armed = 1)
    /\ (TickDone /\ last.res = Ok /\ last.halt_req /\ last.was_armed = 1)
       => (~cpu.should_halt /\ ~cpu.ignore_next_halt)
    /\ (TickDone /\ last.res = Ok /\ last.halt_req /\ last.was_armed # 1)
       => cpu.should_halt

\* The halt request after the suppressed one: an absorbed request was used up,
\* and the tick left should_halt set.
C5_Witness ==
    /\ TickDone
    /\ last.res = Ok
    /\ last.halt_req
    /\ last.was_armed = 2
    /\ cpu.should_halt
    /\ ~cpu.ignore_next_halt

\* C6: a tick makes at most one bus access, a 16-bit one counting as one; a tick
\* in a Delay phase and a tick that reports a Breakpoint make none.
C6_OneBusAccess ==
    last.kind = "tick"
    => (/\ Len(last.log) <= 1
        /\ (last.from.tag = "Delay" => last.log = << >>)
        /\ (last.ret.ev = "Breakpoint" => last.log = << >>))

\* A tick whose one access was a 16-bit write.
C6_Witness ==
    /\ TickDone
    /\ Len(last.log) = 1
    /\ last.log[1].kind = "write"
    /\ last.log[1].T = "u16"
    /\ last.log[1].done

\* The phases one tick may lead to from each phase, optional phases skipped.
Allowed(from, to) ==
    CASE from.tag = "FetchOpcode" ->
            to.tag \in {"FetchByte0", "FetchMemory", "Writeback", "Delay", "FetchOpcode"}
      [] from.tag = "FetchByte0" ->
            to.tag \in {"FetchByte1", "FetchMemory", "Writeback", "Delay", "FetchOpcode"}
      [] from.tag = "FetchByte1" ->
            to.tag \in {"FetchMemory", "Writeback", "Delay", "FetchOpcode"}
      [] from.tag = "FetchMemory" -> to.tag \in {"Writeback", "Delay", "FetchOpcode"}
      [] from.tag = "Writeback" -> to.tag \in {"Delay", "FetchOpcode"}
      [] from.tag = "Delay" ->
            IF from.n > 0 THEN to = Delay(from.n - 1) ELSE to = FetchOpcode

\* C7 as stated: every tick makes exactly one phase transition, in the order
\* FetchOpcode, FetchByte0, FetchByte1, FetchMemory, Writeback, Delay(n), ...,
\* Delay(0), FetchOpcode, and Writeback is entered only by the tick that executed
\* the instruction.
C7_Original ==
    TickDone
    => (/\ Allowed(last.from, cpu.state)
        /\ (cpu.state = Writeback => last.xin.ran))

\* C7 amended: every tick whose phase ends without an event makes exactly one
\* phase transition, in that order; a tick whose phase fails, or whose instruction
\* semantics signal the speed-switch request, leaves the phase where it was.
C7_PhaseOrder ==
    /\ (TickDone /\ last.res = Ok)
       => (/\ Allowed(last.from, cpu.state)
           /\ (cpu.state = Writeback => last.xin.ran))
    /\ (TickDone /\ last.res # Ok) => cpu.state = last.from

\* A tick in FetchByte1 executed the instruction and went to Writeback.
C7_Witness ==
    /\ TickDone
    /\ last.res = Ok
    /\ last.from = FetchByte1
    /\ last.xin.ran
    /\ cpu.state = Writeback

\* C8 as stated: whenever the engine is at the start of a FetchOpcode phase, the
\* operand is 0, no writeback is pending and the opcode is cleared.
C8_Original ==
    cpu.state = FetchOpcode
    => (cpu.operand = 0 /\ cpu.write_op = None /\ cpu.opcode = 0)

\* C8 amended: the tick in FetchOpcode that fetches the opcode byte sets the opcode
\* to that byte, the operand to 0, the writeback to none and branch_taken to
\* false before any later phase or the instruction semantics run; until that tick
\* the fields keep what the previous instruction left.
C8_ResetOnFetch ==
    (TickDone /\ last.from = FetchOpcode /\ last.ret.ev # "Breakpoint")
    => (/\ (last.xin.ran => (last.xin.operand = 0 /\ last.xin.wop = None))
        /\ ((last.res = Ok /\ ~last.xin.ran)
            => (/\ cpu.opcode = last.log[1].val
                /\ cpu.operand = 0
                /\ cpu.write_op = None
                /\ ~cpu.branch_taken)))

\* The third tick of LD B,d8 followed by NOP: the NOP ran with operand 0 after LD
\* had left 0x42 there.
C8_Witness ==
    /\ TickDone
    /\ steps = 3
    /\ last.from = FetchOpcode
    /\ last.res = Ok
    /\ last.xin.ran
    /\ last.xin.operand = 0
    /\ <<"rom_00", cpu.pc - 2>> \in DOMAIN cells
    /\ cells[<<"rom_00", cpu.pc - 2>>] = \h42
    /\ cpu.operand = 0

\* C16: after opcode 0xCB the next fetched byte becomes the opcode; when its low
\* three bits are 6 the instruction goes through FetchMemory, which reads the
\* byte at the address in HL, and takes 8 cycles (2 ticks) more than the
\* metadata of the prefix gives; when they are not, it executes in the tick that
\* fetched the byte, has no FetchMemory phase and takes the cycles of the metadata.
C16_CbDispatch ==
    /\ (TickDone /\ last.from = FetchByte0 /\ last.res = Ok /\ cpu.cb_mode)
       => (/\ cpu.opcode = last.log[1].val
           /\ (cpu.opcode % 8 = 6
               => (cpu.state = FetchMemory /\ cpu.info.src = "MemHL" /\ ~last.xin.ran))
           /\ (cpu.opcode % 8 # 6
               => (last.xin.ran /\ ~IsMemory(cpu.info.src))))
    /\ (cpu.cb_mode /\ cpu.state = FetchMemory) => cpu.opcode % 8 = 6
    /\ (TickDone /\ last.from = FetchMemory /\ cpu.cb_mode)
       => (/\ Len(last.log) = 1
           /\ last.log[1].kind = "read"
           /\ last.log[1].T = "u8"
           /\ last.log[1].addr = cpu.hl)
    /\ (InstructionDone /\ cpu.cb_mode)
       => ticks = (cpu.info.untaken \div 4) + (IF cpu.opcode % 8 = 6 THEN 2 ELSE 0)

\* BIT 0,(HL) closed after 4 ticks; its third tick read the byte at HL.
C16_Witness ==
    /\ InstructionDone
    /\ cpu.cb_mode
    /\ cpu.opcode = \h46
    /\ cpu.hl = \hC000
    /\ cpu.info.src = "MemHL"
    /\ ticks = 4

\* BIT 0,B closed after 2 ticks.
C16_WitnessRegister ==
    /\ InstructionDone
    /\ cpu.cb_mode
    /\ cpu.opcode = \h40
    /\ ticks = 2

\* The last tick ran its phase to the end, or had the speed-switch request of
\* its execute step absorbed.
PhaseDone == TickDone /\ last.res \in {Ok, CgbSpeedSwitchReq}

\* C22: after the opcode fetch the engine goes to FetchByte0 when the instruction
\* is longer than one byte, else to FetchMemory when the source operand is
\* memory-addressed, else it executes in the same tick; after FetchByte0 it goes
\* to FetchByte1 only when the instruction is longer than two bytes; the engine
\* is in FetchMemory only with a memory-addressed source, and an instruction with
\* a memory-addressed source executes in its FetchMemory tick and in no other.
C22_PhaseSelection ==
    /\ (PhaseDone /\ last.from = FetchOpcode)
       => (/\ (cpu.info.size > 1 => (cpu.state = FetchByte0 /\ ~last.xin.ran))
           /\ (cpu.info.size <= 1 /\ IsMemory(cpu.info.src)
               => (cpu.state = FetchMemory /\ ~last.xin.ran))
           /\ (cpu.info.size <= 1 /\ ~IsMemory(cpu.info.src) => last.xin.ran))
    /\ (PhaseDone /\ last.from = FetchByte0)
       => (/\ (cpu.info.size > 2 => (cpu.state = FetchByte1 /\ ~last.xin.ran))
           /\ (cpu.info.size <= 2 /\ IsMemory(cpu.info.src)
               => (cpu.state = FetchMemory /\ ~last.xin.ran))
           /\ (cpu.info.size <= 2 /\ ~IsMemory(cpu.info.src) => last.xin.ran))
    /\ (PhaseDone /\ last.from = FetchByte1)
       => (/\ (IsMemory(cpu.info.src) => (cpu.state = FetchMemory /\ ~last.xin.ran))
           /\ (~IsMemory(cpu.info.src) => last.xin.ran))
    /\ (cpu.state = FetchByte1 => cpu.info.size > 2)
    /\ (cpu.state = FetchMemory => IsMemory(cpu.info.src))
    /\ (PhaseDone /\ last.xin.ran)
       => (IsMemory(cpu.info.src) <=> last.from = FetchMemory)

\* LD A,(C000): three bytes and a memory operand.  The tick after FetchByte1
\* left the engine in FetchMemory without executing.
C22_Witness ==
    /\ PhaseDone
    /\ last.from = FetchByte1
    /\ cpu.opcode = \hFA
    /\ cpu.info.size = 3
    /\ cpu.info.src = "MemA16"
    /\ cpu.state = FetchMemory
    /\ cpu.operand = \hC000
    /\ ~last.xin.ran

\* The registers of the CPU.
Regs(c) == <<c.af, c.bc, c.de, c.hl, c.sp, c.pc>>

\* The budget a tick entered with remaining_cycles r works with.
Budget(r) == U8(r - 4)

\* The phase the budget b sends the engine to.
BudgetPhase(b) == IF b > 0 THEN Delay((b - 1) \div 4) ELSE FetchOpcode

\* C23: a Writeback tick performs the one queued operation.  Write8 and Write16
\* write the value at the destination and change no register; Push moves sp down
\* by 2 and then writes the 16-bit value at the new sp; Return reads 16 bits at
\* sp into pc and then moves sp up by 2.  The engine goes to Delay((remaining-1)/4)
\* when budget remains and to FetchOpcode otherwise, and nothing else in the CPU
\* changes.
C23_Writeback ==
    [][(TickStep /\ cpu.state = Writeback /\ last'.res = Ok)
       => LET w == cpu.write_op
              b == Budget(cpu.remaining_cycles)
          IN  /\ w.op \in {"Write8", "Write16", "Push", "Return"}
              /\ cpu'.state = BudgetPhase(b)
              /\ cpu' = [cpu EXCEPT !.state = BudgetPhase(b),
                                    !.executing = (b > 0),
                                    !.remaining_cycles = b,
                                    !.sp = cpu'.sp,
                                    !.pc = cpu'.pc]
              /\ Len(last'.log) = 1
              /\ (w.op = "Write8"
                  => (/\ last'.log[1] = Access("write", "u8", w.dest, w.val, TRUE)
                      /\ RawRead(cells', w.dest, "u8") = {[st |-> "ok", v |-> w.val]}
                      /\ Regs(cpu') = Regs(cpu)))
              /\ (w.op = "Write16"
                  => (/\ last'.log[1] = Access("write", "u16", w.dest, w.val, TRUE)
                      /\ RawRead(cells', w.dest, "u16") = {[st |-> "ok", v |-> w.val]}
                      /\ Regs(cpu') = Regs(cpu)))
              /\ (w.op = "Push"
                  => (/\ cpu'.sp = U16(cpu.sp - 2)
                      /\ cpu'.pc = cpu.pc
                      /\ last'.log[1] = Access("write", "u16", cpu'.sp, w.val, TRUE)
                      /\ RawRead(cells', cpu'.sp, "u16")
                             = {[st |-> "ok", v |-> w.val]}))
              /\ (w.op = "Return"
                  => (/\ cells' = cells
                      /\ last'.log[1] = Access("read", "u16", cpu.sp, cpu'.pc, TRUE)
                      /\ RawRead(cells, cpu.sp, "u16") = {[st |-> "ok", v |-> cpu'.pc]}
                      /\ cpu'.sp = U16(cpu.sp + 2)))]_vars

\* PUSH BC from the boot state: the Writeback tick moved sp from 0xFFF0 to 0xFFEE,
\* stored BC there, and left 8 cycles of budget, Delay(1).
C23_Witness ==
    /\ TickDone
    /\ last.from = Writeback
    /\ last.res = Ok
    /\ cpu.write_op.op = "Push"
    /\ cpu.opcode = \hC5
    /\ cpu.sp = \hFFEE
    /\ last.log = <<Access("write", "u16", \hFFEE, cpu.bc, TRUE)>>
    /\ cells[<<"hram", \h6E>>] = cpu.bc % 256
    /\ cpu.remaining_cycles = 8
    /\ cpu.state = Delay(1)

\* RET NZ taken from power-on: the Writeback tick read pc from address 0 and
\* moved sp up to 2.
C23_WitnessReturn ==
    /\ TickDone
    /\ last.from = Writeback
    /\ last.res = Ok
    /\ cpu.write_op.op = "Return"
    /\ cpu.sp = 2
    /\ cpu.pc = \h00C0

\* C24: a tick in FetchOpcode with paused already true reports no breakpoint,
\* pc in the breakpoint set or not: it reads the opcode at pc, and when it
\* returns Ok pc is one further and paused is false.  Every tick in FetchOpcode
\* that returns Ok leaves paused false.
C24_PausedFetch ==
    [][(TickStep /\ cpu.state = FetchOpcode /\ ~panicked')
       => (/\ (cpu.paused
               => (/\ last'.ret.ev # "Breakpoint"
                   /\ Len(last'.log) = 1
                   /\ last'.log[1].kind = "read"
                   /\ last'.log[1].T = "u8"
                   /\ last'.log[1].addr = cpu.pc))
           /\ (last'.ret = Ok
               => (/\ ~cpu'.paused
                   /\ last'.log[1].done
                   /\ cpu'.opcode = last'.log[1].val
                   /\ cpu'.pc = U16(cpu.pc + 1))))]_vars

\* The engine was paused at an armed breakpoint, 0x0150, and the tick fetched
\* LD B,d8 there: pc is 0x0151, paused is false, no event.
C24_Witness ==
    /\ TickDone
    /\ last.from = FetchOpcode
    /\ last.ret = Ok
    /\ last.log = <<Access("read", "u8", \h0150, \h06, TRUE)>>
    /\ \h0150 \in cpu.breakpoints
    /\ cpu.pc = \h0151
    /\ cpu.opcode = \h06
    /\ ~cpu.paused

\* The events of a fatal failure: neither a breakpoint nor the speed-switch
\* request.
FatalFailures == {"InvalidAddress", "IllegalOpcode"}

\* C18 as stated: after a tick that fails with a fatal event, paused() is true
\* when tick returns.
C18_Original ==
    (TickDone /\ last.ret.ev \in FatalFailures) => cpu.paused

\* C18: a tick that fails with a fatal event leaves the paused flag as it was
\* before the tick, true or false: the engine does not arm the pause state.
C18_FatalKeepsPaused ==
    [][(TickStep /\ last'.res.ev \in FatalFailures)
       => (/\ last'.ret = last'.res
           /\ cpu'.paused = cpu.paused)]_vars

\* A tick has just failed on an illegal opcode and paused() is false; the engine
\* is back in FetchByte0 or FetchOpcode, ready to fail the same way again.
C18_Witness ==
    /\ TickDone
    /\ last.ret.ev = "IllegalOpcode"
    /\ last.xin.ran
    /\ ~cpu.paused

-----------------------------------------------------------------------------
(* Properties of the bus (BusSpec) *)

\* C9: for every address, read dispatch and write dispatch each select one owner
\* among rom_00, rom_nn, ppu, eram, wram_00, wram_nn, apu, hram or the invalid
\* address arm; no two ranges claim the address; read and write select the same
\* owner and the same translated offset.
C9_DispatchPartition ==
    /\ Cardinality(MatchingArms(ReadArms, bus_addr)) <= 1
    /\ Cardinality(MatchingArms(WriteArms, bus_addr)) <= 1
    /\ ReadDispatch(bus_addr) = WriteDispatch(bus_addr)
    /\ ReadDispatch(bus_addr).owner \in Owners \cup {"invalid"}
    /\ (bus_last.op # "none"
        => ((bus_last.st = "invalid") <=> (bus_last.sel = Invalid)))
    /\ ((bus_pc = "read" /\ bus_last.addr = bus_addr)
        => bus_last.sel = WriteDispatch(bus_addr))

\* A read at the last address of the second echo range, after a write there.
C9_Witness ==
    /\ bus_pc = "read"
    /\ bus_last.written
    /\ bus_addr = \hFDFF
    /\ bus_last.addr = \hFDFF
    /\ bus_last.sel = [owner |-> "wram_nn", off |-> \h0DFF]

\* The write went to w and the read to r, one in work RAM and the other its echo.
EchoPair(w, r) ==
    \/ (\hC000 <= w /\ w <= \hCFFF /\ r = w + \h2000)
    \/ (\hE000 <= w /\ w <= \hEFFF /\ r = w - \h2000)
    \/ (\hD000 <= w /\ w <= \hDDFF /\ r = w + \h2000)
    \/ (\hF000 <= w /\ w <= \hFDFF /\ r = w - \h2000)

\* C10: for k in 0..0x0FFF a byte written at 0xE000+k is read back at 0xC000+k and
\* a byte written at 0xC000+k is read back at 0xE000+k; for k in 0..0x0DFF the
\* same holds between 0xF000+k and 0xD000+k.
C10_EchoAliasesWorkRam ==
    (bus_pc = "read" /\ bus_last.written /\ EchoPair(bus_addr, bus_last.addr))
    => (bus_last.st = "ok" /\ bus_last.v = bus_last.wv)

\* 0xA5 written at 0xEFFF came back from 0xCFFF.
C10_Witness ==
    /\ bus_pc = "read"
    /\ bus_last.written
    /\ bus_addr = \hEFFF
    /\ bus_last.addr = \hCFFF
    /\ bus_last.wv = \hA5
    /\ bus_last.v = \hA5

-----------------------------------------------------------------------------
(* Properties of sized access through the bus (AccessSpec) *)

\* The address is claimed by a range.
Mapped(addr) == MatchingArms(ReadArms, addr) # {}

\* The mapped ranges, the video ranges split into tile data, the two tile maps,
\* the sprite table and the registers.
AccessRanges ==
    {<<\h0000, \h3FFF>>, <<\h4000, \h7FFF>>, <<\h8000, \h97FF>>, <<\h9800, \h9BFF>>,
     <<\h9C00, \h9FFF>>, <<\hA000, \hBFFF>>, <<\hC000, \hCFFF>>, <<\hD000, \hDFFF>>,
     <<\hE000, \hEFFF>>, <<\hF000, \hFDFF>>, <<\hFE00, \hFE9F>>, <<\hFF10, \hFF3F>>,
     <<\hFF40, \hFF6F>>, <<\hFF80, \hFFFE>>}

\* An access of width T at addr lies inside one of the ranges.
Fits(addr, T) ==
    \E r \in AccessRanges : r[1] <= addr /\ addr + ByteSize(T) - 1 <= r[2]

\* C11 as stated: for each width, each mapped range and each offset of it at
\* which the access fits in the range, a write of v goes through and a read of
\* the same width at the same offset returns v.
C11_RoundTrip ==
    /\ (bus_last.op = "write" /\ Fits(bus_last.addr, bus_last.T))
       => bus_last.st = "ok"
    /\ (bus_pc = "read" /\ bus_last.written /\ bus_last.T = bus_last.wT)
       => (bus_last.st = "ok" /\ bus_last.v = bus_last.wv)

\* A 16-bit write at the last byte of the first tile aborted; the address after
\* it is tile data as well.
C11_Witness ==
    /\ bus_last.op = "write"
    /\ bus_last.T = "u16"
    /\ bus_last.addr = \h800F
    /\ Fits(\h800F, "u16")
    /\ bus_last.st = "oob"
    /\ panicked

\* The addresses no range claims.
Unmapped == (\hFEA0..\hFF0F) \cup (\hFF70..\hFF7F) \cup {\hFFFF}

\* C13: a read or a write at an address of 0xFEA0..0xFF0F, 0xFF70..0xFF7F or at
\* 0xFFFF signals the invalid-address condition and changes no memory block and
\* no device; no other address signals it.
C13_InvalidAddress ==
    [][/\ (bus_addr \in Unmapped
           => (bus_last'.st = "invalid" /\ bus_last'.sel = Invalid /\ cells' = cells))
       /\ (bus_last'.st = "invalid" => bus_addr \in Unmapped)]_vars

\* A 16-bit write at 0xFFFF was refused and left the memory empty.
C13_Witness ==
    /\ bus_last.op = "write"
    /\ bus_last.T = "u16"
    /\ bus_last.addr = \hFFFF
    /\ bus_last.st = "invalid"
    /\ cells = << >>

-----------------------------------------------------------------------------
(* Properties of MemSize (SizeSpec) *)

\* C12: a 16-bit write of v at offset o stores v mod 256 at o and v div 256 at
\* o+1 and no other byte; after it an 8-bit read at o returns the low byte and
\* one at o+1 the high byte; a 16-bit read of b0 at o and b1 at o+1 returns
\* b1*256 + b0; the byte width is 1 for both 8-bit types and 2 for the 16-bit one.
C12_LittleEndian ==
    /\ ByteSize("u8") = 1 /\ ByteSize("i8") = 1 /\ ByteSize("u16") = 2
    /\ (bus_last.op = "write" /\ bus_last.T = "u16" /\ bus_last.st = "ok")
       => (/\ bus_last.buf[bus_last.o + 1] = bus_last.v % 256
           /\ bus_last.buf[bus_last.o + 2] = bus_last.v \div 256
           /\ \A i \in 1..SliceLen :
                  i \notin {bus_last.o + 1, bus_last.o + 2}
                  => bus_last.buf[i] = bus_last.pre[i])
    /\ (/\ bus_last.op = "read" /\ bus_last.T = "u8" /\ bus_last.st = "ok"
        /\ bus_last.written /\ bus_last.wT = "u16")
       => (/\ (bus_last.o = bus_last.wo => bus_last.v = bus_last.wv % 256)
           /\ (bus_last.o = bus_last.wo + 1 => bus_last.v = bus_last.wv \div 256))
    /\ (bus_last.op = "read" /\ bus_last.T = "u16" /\ bus_last.st = "ok")
       => bus_last.v = bus_last.buf[bus_last.o + 2] * 256 + bus_last.buf[bus_last.o + 1]

\* 0x12A5 was written at offset 1 and the 8-bit read at offset 2 returned 0x12.
C12_Witness ==
    /\ bus_last.op = "read"
    /\ bus_last.T = "u8"
    /\ bus_last.written
    /\ bus_last.wT = "u16"
    /\ bus_last.wv = \h12A5
    /\ bus_last.wo = 1
    /\ bus_last.o = 2
    /\ bus_last.v = \h12
    /\ bus_last.buf[2] = \hA5

-----------------------------------------------------------------------------
(* Properties of the device interface (BusSpec) *)

\* The first address of the range that claims addr.
RangeBase(addr) == ReadArms[Min(MatchingArms(ReadArms, addr))].lo

\* The last operation went to the video unit or to the sound unit.
ToDevice == bus_last.op # "none" /\ bus_last.sel.owner \in {"ppu", "apu"}

-----------------------------------------------------------------------------
(* Properties of the flag register (FlagSpec) *)

\* C15: after set_f, set_zf, set_sf, set_hc or set_cy, with any argument and
\* from any af, the low nibble of af is zero and the accumulator is what it was;
\* a single-flag setter gives its own flag the argument and leaves the other
\* three flags as they were, and nothing else of the CPU changes.
C15_FlagRegister ==
    last.kind \in {"set_f", "set_flag"}
    => (/\ cpu.af % 16 = 0
        /\ cpu.af \div 256 = last.old.af \div 256
        /\ cpu = [last.old EXCEPT !.af = cpu.af]
        /\ (last.kind = "set_f"
            => \A b \in 4..7 : Bit(cpu.af, b) = Bit(last.arg, b))
        /\ (last.kind = "set_flag"
            => (/\ Bit(cpu.af, last.bit) = (IF last.arg THEN 1 ELSE 0)
                /\ \A b \in (4..7) \ {last.bit} :
                       Bit(cpu.af, b) = Bit(last.old.af, b))))

\* set_hc(true) on af = 0xA5CF: the half-carry flag came on, the low nibble went
\* to zero, the accumulator and the other flags stayed.
C15_Witness ==
    /\ last.kind = "set_flag"
    /\ last.bit = 5
    /\ last.arg = TRUE
    /\ last.old.af = \hA5CF
    /\ cpu.af = \hA5E0
    /\ hc(cpu) /\ zf(cpu) /\ sf(cpu) /\ ~cy(cpu)

-----------------------------------------------------------------------------
(* Properties of interrupt service (IsrSpec) *)

\* C17: a successful jump_to_isr(bus, vector) moves sp down by 2, stores the old
\* pc as 16 bits, low byte first, at the new sp, sets pc to the vector, and
\* changes no other register and no execution-state field.
C17_InterruptService ==
    (last.kind = "isr" /\ last.ret = Ok)
    => (/\ cpu = [last.old EXCEPT !.sp = U16(last.old.sp - 2), !.pc = last.vector]
        /\ cpu.sp = last.old.sp - 2
        /\ last.log = <<Access("write", "u16", cpu.sp, last.old.pc, TRUE)>>
        /\ RawRead(cells, cpu.sp, "u16") = {[st |-> "ok", v |-> last.old.pc]}
        /\ RawRead(cells, cpu.sp, "u8") = {[st |-> "ok", v |-> last.old.pc % 256]}
        /\ RawRead(cells, cpu.sp + 1, "u8")
               = {[st |-> "ok", v |-> last.old.pc \div 256]})

\* An interrupt taken in the middle of LD (a16),SP: pc 0x0152 went to 0xFFEE,
\* pc is the vector, and the engine is still in FetchByte1 with its operand.
C17_Witness ==
    /\ last.kind = "isr"
    /\ last.ret = Ok
    /\ last.old.pc = \h0152
    /\ last.old.sp = \hFFF0
    /\ cpu.sp = \hFFEE
    /\ cpu.pc = \h0050
    /\ cpu.state = FetchByte1
    /\ cpu.operand # 0
    /\ cells[<<"hram", \h6E>>] = \h52
    /\ cells[<<"hram", \h6F>>] = \h01

\* C31: jump_to_isr is not transactional: when its bus write fails it returns
\* the error with pc unchanged but with sp already decremented by 2; nothing
\* else in the CPU changes and no snapshot is restored.
C31_IsrNotTransactional ==
    (last.kind = "isr" /\ last.ret # Ok /\ last.ret # Panic)
    => (/\ cpu.pc = last.old.pc
        /\ cpu.sp = U16(last.old.sp - 2)
        /\ cpu = [last.old EXCEPT !.sp = U16(last.old.sp - 2)]
        /\ cpu # last.old
        /\ last.ret = InvalidAddress(cpu.sp)
        /\ last.log = <<Access("write", "u16", cpu.sp, last.old.pc, FALSE)>>)

\* C31 witness: with sp = 0xFF02 the push goes to 0xFF00, which no range
\* claims; the call returned the invalid-address event, sp is 0xFF00 and pc is
\* not the vector.
C31_Witness ==
    /\ last.kind = "isr" /\ ~panicked
    /\ last.ret = InvalidAddress(\hFF00)
    /\ last.old.sp = \hFF02 /\ cpu.sp = \hFF00
    /\ cpu.pc = last.old.pc /\ cpu.pc # last.vector

-----------------------------------------------------------------------------
(* Properties of the video unit (PpuSpec) *)

\* C19: with bit 7 of the LCD control register clear, rasterize sets every byte
\* of the output buffer, whatever its length, to 0xFF, whatever the tile data,
\* tile maps, palette and scroll registers hold, and leaves the video unit as it
\* was.
C19_BlankWhenDisabled ==
    (bus_last.op = "rasterize" /\ Bit(lcdc(bus_last.pre), 7) = 0)
    => (/\ bus_last.st = "ok"
        /\ ~panicked
        /\ Len(bus_last.out) = Len(bus_last.vbuf)
        /\ \A i \in 1..Len(bus_last.out) : bus_last.out[i] = \hFF
        /\ cells = bus_last.pre)

\* The display is off with every other control bit set and the palette
\* reversed, and a buffer of four bytes that held 00 55 00 55 is all 0xFF.
C19_Witness ==
    /\ bus_last.op = "rasterize"
    /\ lcdc(cells) = \h7F
    /\ bgp(cells) = \h1B
    /\ bus_last.vbuf = <<\h00, \h55, \h00, \h55>>
    /\ bus_last.out = <<\hFF, \hFF, \hFF, \hFF>>

\* The step is one call of hsync.
HsyncStep == bus_last'.op = "hsync"

\* C20: hsync sets the scanline counter to (old value + 1) mod 154 for every
\* value the register can hold, and changes nothing else in the video unit.
C20_ScanlineCounter ==
    [][HsyncStep
       => (/\ ~panicked'
           /\ cells' = Store(cells, <<"regs", 4>>,
                             (PpuByte(cells, "regs", 4) + 1) % 154))]_vars

\* hsync was called with the counter at 255, as a write to 0xFF44 left it: the
\* counter is 0 where (255 + 1) mod 154 is 102, or the call panicked.
C20_Witness ==
    /\ bus_last.op = "hsync"
    /\ PpuByte(bus_last.pre, "regs", 4) = 255
    /\ \/ panicked /\ overflow_checks
       \/ ~panicked /\ ~overflow_checks /\ PpuByte(cells, "regs", 4) = 0

\* From power-on and under hsync alone the counter is the number of calls
\* mod 154: within 0..153, and 0 again after every 154 calls.
C20_PowerOnCycle ==
    (bus_pc = 0)
    => (/\ ~panicked
        /\ PpuByte(cells, "regs", 4) = steps % 154
        /\ PpuByte(cells, "regs", 4) \in 0..153)

-----------------------------------------------------------------------------
(* Properties of ROM loading (RomSpec) *)

\* C21: after the bus is built from an image, bank 0 holds the first 0x4000
\* bytes of the image and byte k of the switchable region is byte 0x4000 + k of
\* the image; bytes the image does not cover are zero.
C21_RomLoading ==
    (bus_last.op = "read")
    => (/\ bus_last.st = "ok"
        /\ bus_last.v = IF bus_last.addr < bus_last.img.len
                        THEN ImageByte(bus_last.img, bus_last.addr)
                        ELSE 0)

\* An image of three banks: 0x4000 of the bus reads the first byte of the third
\* bank, not the first byte of the second.
C21_Witness ==
    /\ bus_last.op = "read"
    /\ bus_last.addr = \h4000
    /\ bus_last.img.len = \hC000
    /\ ImageByte(bus_last.img, \h4000) # ImageByte(bus_last.img, \h8000)
    /\ bus_last.v = ImageByte(bus_last.img, \h8000)
    /\ bus_last.v # 0

\* Images of at most two banks load as described: both windows read the image
\* byte at the address, and zero past its end.
C21_TwoBanks ==
    (bus_last.op = "read" /\ bus_last.img.len <= 2 * ChunkSize)
    => (/\ bus_last.st = "ok"
        /\ bus_last.v = IF bus_last.addr < bus_last.img.len
                        THEN ImageByte(bus_last.img, bus_last.addr)
                        ELSE 0)

-----------------------------------------------------------------------------
(* Properties of the rasterizer (FrameSpec) *)

\* The tile of the background at (x, y): the entry of map 0 or map 1 by bit 3 of
\* the LCD control register, taken as it is when bit 4 is set and as a signed
\* offset from tile 128 when it is clear.
TileAt(mem, x, y) ==
    LET id == (y \div 8) * 32 + (x \div 8)
        entry == PpuByte(mem, IF Bit(lcdc(mem), 3) = 1 THEN "bgtm1" ELSE "bgtm0", id)
    IN  IF Bit(lcdc(mem), 4) = 1 THEN entry
        ELSE IF entry >= 128 THEN entry - 128 ELSE entry + 128

\* The 2-bit colour of tile t at row r, column col: low bit from byte 2r, high
\* bit from byte 2r + 1, both at bit 7 - col.
ColourAt(mem, t, r, col) ==
    Bit(PpuByte(mem, "tdt", 16 * t + 2 * r), 7 - col)
    + 2 * Bit(PpuByte(mem, "tdt", 16 * t + 2 * r + 1), 7 - col)

\* The shade of colour c under the palette.
ShadeOf(mem, c) == <<\hFF, \hAA, \h55, \h00>>[((bgp(mem) \div (2 ^ (2 * c))) % 4) + 1]

\* The shade of output pixel (px, py).
ShadeAt(mem, px, py) ==
    LET x == (px + scroll_x(mem)) % 256
        y == (py + scroll_y(mem)) % 256
    IN  ShadeOf(mem, ColourAt(mem, TileAt(mem, x, y), y % 8, x % 8))

\* C25: with the display enabled, the three bytes at index (py*160 + px)*3 of
\* the buffer all equal the shade of the background at
\* ((px + scroll X) mod 256, (py + scroll Y) mod 256), for every px in 0..159
\* and py in 0..143, and the video unit stays as it was.
C25_BackgroundPixels ==
    (bus_last.op = "rasterize" /\ Bit(lcdc(bus_last.pre), 7) = 1)
    => (/\ bus_last.st = "ok"
        /\ cells = bus_last.pre
        /\ Len(bus_last.out) = FrameBytes
        /\ LET out == bus_last.out \o << >> IN
           \A py \in 0..(ScreenH - 1) : \A px \in 0..(ScreenW - 1) :
               LET sh == ShadeAt(bus_last.pre, px, py)
                   pid == (py * ScreenW + px) * 3
               IN  /\ out[pid + 1] = sh
                   /\ out[pid + 2] = sh
                   /\ out[pid + 3] = sh)

\* A frame drawn with signed indices from map 1, the reversed palette and a
\* horizontal scroll of 7: pixel (0, 0) is column 7 of row 0 of tile 1, colour 1,
\* shade 0x55; pixel (1, 0) is column 0 of tile 255, colour 0, shade 0x00.
C25_Witness ==
    /\ bus_last.op = "rasterize"
    /\ bus_last.st = "ok"
    /\ lcdc(cells) = \h88
    /\ bgp(cells) = \h1B
    /\ scroll_x(cells) = 7
    /\ PpuByte(cells, "bgtm1", 0) = \h81
    /\ PpuByte(cells, "tdt", \h0010) = \hA5
    /\ Len(bus_last.out) = FrameBytes
    /\ bus_last.out[1] = \h55
    /\ bus_last.out[2] = \h55
    /\ bus_last.out[3] = \h55
    /\ bus_last.out[4] = \h00

\* C27 as stated: between ticks the executing flag is false exactly when the
\* phase is FetchOpcode.
C27_Original ==
    ~panicked => (cpu.executing <=> cpu.state # FetchOpcode)

\* The tick just made started in FetchOpcode and absorbed the speed-switch
\* request (primed: the step's target state).
AbsorbedInFetchOpcode ==
    /\ last'.kind = "tick"
    /\ last'.from = FetchOpcode
    /\ last'.res = CgbSpeedSwitchReq

\* C27: between ticks the executing flag is true in FetchByte0, FetchByte1,
\* FetchMemory, Writeback and every Delay(n).  In FetchOpcode it is false, with
\* one exception: a tick that starts in FetchOpcode and whose instruction
\* semantics signal the speed-switch request leaves the engine in FetchOpcode
\* with executing true, and the flag stays true there until a tick completes
\* without an event.
C27_ExecutingFlag ==
    [][~panicked' =>
        /\ cpu'.state # FetchOpcode => cpu'.executing
        /\ (cpu'.state = FetchOpcode /\ cpu'.executing) =>
            \/ AbsorbedInFetchOpcode
            \/ /\ cpu.state = FetchOpcode /\ cpu.executing
               /\ last'.kind = "tick" => last'.res # Ok]_vars

\* C27 witness: STOP signalled the request in the tick that fetched it; the
\* engine waits in FetchOpcode with executing set.
C27_Witness ==
    /\ TickDone
    /\ last.from = FetchOpcode /\ last.res = CgbSpeedSwitchReq
    /\ cpu.opcode = \h10
    /\ cpu.state = FetchOpcode /\ cpu.executing

\* The fetch phases that end by calling exec().
FetchPhases == {FetchOpcode, FetchByte0, FetchByte1, FetchMemory}

\* The phases that fetch their byte at pc.
PcFetchPhases == {FetchOpcode, FetchByte0, FetchByte1}

\* The tick just made absorbed the speed-switch request (primed: the step's
\* target state).
SwitchAbsorbed ==
    /\ last'.kind = "tick" /\ ~panicked'
    /\ last'.res = CgbSpeedSwitchReq

\* From the state the tick left, the next tick starts with the read of its
\* fetch phase: a byte at pc for the phases that fetch at pc.
RefetchesNext ==
    \A o \in tick(cpu', cells', overflow_checks') :
        (o.ret.ev # "Breakpoint") =>
            /\ Len(o.log) >= 1
            /\ o.log[1].kind = "read"
            /\ cpu'.state \in PcFetchPhases =>
                (o.log[1].addr = cpu'.pc /\ o.log[1].T = "u8")

\* C28: when the instruction semantics signal the speed-switch request, the
\* tick returns Ok without a phase transition: the phase after the tick is the
\* fetch phase it started in, branch_taken and the budget carry no taken-branch
\* adjustment, the byte the phase fetched at pc stays consumed, and the next
\* tick runs the same fetch phase again, reading a further byte at the advanced
\* pc (FetchMemory, which does not fetch at pc, reads its operand again).
C28_SpeedSwitch ==
    [][SwitchAbsorbed =>
        /\ last'.ret = Ok
        /\ cpu.state \in FetchPhases
        /\ cpu'.state = cpu.state
        /\ cpu'.ignore_next_halt
        /\ cpu'.branch_taken = (cpu.state # FetchOpcode /\ cpu.branch_taken)
        /\ cpu'.remaining_cycles =
              IF cpu.state = FetchOpcode THEN U8(cpu'.info.untaken - 4)
              ELSE U8(cpu.remaining_cycles - 4)
        /\ cpu'.pc = IF cpu.state \in PcFetchPhases THEN U16(cpu.pc + 1) ELSE cpu.pc
        /\ RefetchesNext]_vars

\* C28 witness: the request was signalled in FetchByte1, after the second
\* immediate byte; the engine is still in FetchByte1.
C28_Witness ==
    /\ TickDone
    /\ last.res = CgbSpeedSwitchReq /\ last.ret = Ok
    /\ last.from = FetchByte1 /\ cpu.state = FetchByte1

\* The same in FetchMemory.
C28_WitnessMemory ==
    /\ TickDone
    /\ last.res = CgbSpeedSwitchReq
    /\ last.from = FetchMemory /\ cpu.state = FetchMemory

\* C29: the 8-bit subtraction of 4 from remaining_cycles at the start of tick
\* never underflows: whenever tick is called, at power-on and in FetchOpcode and
\* Writeback included, remaining_cycles is at least 4.
C29_NoUnderflow ==
    [][(last'.kind = "tick" /\ steps' = steps + 1) => cpu.remaining_cycles >= 4]_vars

\* C29 witness: the first tick after power-on, in a build with overflow checks,
\* aborted on the subtraction.
C29_Witness ==
    /\ panicked /\ overflow_checks
    /\ steps = 1
    /\ last.kind = "tick" /\ last.from = FetchOpcode /\ last.ret = Panic
    /\ cpu.remaining_cycles = 0
    /\ last.log = << >>

\* Without overflow checks the subtraction wraps and the tick goes on: an
\* instruction has completed and the engine is back in FetchOpcode with an
\* empty budget, where the next tick underflows again.
C29_WitnessWrap ==
    /\ TickDone /\ ~overflow_checks
    /\ last.ret = Ok
    /\ cpu.state = FetchOpcode /\ cpu.remaining_cycles = 0

\* With overflow checks no tick ever completes: every behaviour ends in the
\* abort of its first tick.
C29_ChecksAlwaysAbort ==
    (overflow_checks /\ last.kind = "tick") => (panicked /\ steps = 1)

\* The budget matches the phase: Delay(n) has 4*(n+1) cycles left.
DelaySized(c) ==
    c.state.tag = "Delay" => c.remaining_cycles = 4 * (c.state.n + 1)

\* C32: Delay(n) implies remaining_cycles = 4*(n+1), and a tick in Delay(n)
\* consumes 4 cycles and goes to Delay(n-1), or to FetchOpcode from Delay(0), so
\* that a Delay entered with budget r takes exactly r/4 further ticks to be back
\* in FetchOpcode; FetchOpcode implies remaining_cycles = 0 unless the current
\* instruction absorbed a speed-switch request: a nonzero budget in FetchOpcode
\* is left only by a tick that absorbed the request there, and lasts only until
\* a tick completes without an event.
C32_DelaySizing ==
    [][~panicked' =>
        /\ DelaySized(cpu')
        /\ (cpu'.state = FetchOpcode /\ cpu'.remaining_cycles # 0) =>
            \/ AbsorbedInFetchOpcode
            \/ /\ cpu.state = FetchOpcode /\ cpu.remaining_cycles # 0
               /\ last'.kind = "tick" => last'.res # Ok
        /\ (last'.kind = "tick" /\ steps' = steps + 1 /\ cpu.state.tag = "Delay") =>
            /\ last'.res = Ok
            /\ cpu'.state = IF cpu.state.n = 0 THEN FetchOpcode
                            ELSE Delay(cpu.state.n - 1)
            /\ cpu'.remaining_cycles = cpu.remaining_cycles - 4]_vars

\* C32 witness: RET NZ, taken: Writeback left 12 cycles and entered Delay(2);
\* three ticks later, the fifth of the instruction, the engine is back in
\* FetchOpcode with nothing left.
C32_Witness ==
    /\ TickDone /\ clean
    /\ cpu.opcode = \hC0 /\ cpu.branch_taken
    /\ last.from = Delay(0)
    /\ cpu.state = FetchOpcode /\ cpu.remaining_cycles = 0
    /\ ticks = 5

\* The engine in Delay(2) with 12 cycles left.
C32_WitnessDelay ==
    /\ TickDone
    /\ cpu.state = Delay(2) /\ cpu.remaining_cycles = 12

-----------------------------------------------------------------------------
(* Properties of the front end's driver (DriverSpec) *)

\* The state a do_step has just returned into.
StepDone == last.kind = "do_step" /\ ~panicked

\* The driver at rest: no mode set and the CPU paused.
DriverPaused ==
    /\ ~emu.step_to_next /\ ~emu.run_to_breakpoint /\ ~emu.turbo_mode
    /\ cpu.paused

\* A do_step from the present state runs nothing and changes nothing.
NextStepIdle ==
    \A n \in 0..MaxRun :
        do_step(emu, cpu, cells, overflow_checks, n) = {DR(emu, cpu, cells, Ok, 0)}

\* C26: a do_step in single-step mode runs exactly one emulator step and leaves
\* the driver paused (step, run and turbo flags cleared, CPU paused) whether or
\* not the step produced an event; in every mode, when the step returns an
\* event, do_step stores it as the last event and leaves the driver paused, so
\* that a do_step made before a mode is set again runs nothing.
C26_DriverStepping ==
    StepDone =>
        /\ last.was.step_to_next => (last.ran = 1 /\ DriverPaused)
        /\ (last.ret # Ok) =>
            /\ last.ran >= 1
            /\ emu.trace_event = last.ret
            /\ DriverPaused
            /\ paused(emu, cpu)
            /\ NextStepIdle

\* C26 witness: a run towards audio sync whose second step returned an event.
C26_Witness ==
    /\ StepDone
    /\ last.was.run_to_breakpoint /\ ~last.was.step_to_next /\ ~last.was.turbo_mode
    /\ last.ran = 2
    /\ last.ret # Ok

\* A single step without an event, which pauses the driver all the same.
C26_WitnessSingleStep ==
    /\ StepDone
    /\ last.was.step_to_next /\ last.ret = Ok /\ last.ran = 1

-----------------------------------------------------------------------------
(* Properties of the sprite table (OamSpec) *)

\* The read at the other address has returned.
OamReadDone == bus_pc = "read" /\ ~panicked

\* C30: sprite-table writes do not alias: for two distinct addresses a and a' in
\* 0xFE00..0xFE9F, writing a byte at a leaves the byte read at a' unchanged.
C30_NoAlias ==
    (OamReadDone /\ bus_last.addr # bus_addr) => bus_last.v = bus_last.pre

\* C30 witness: the byte at 0xFE00 held 0x5A; after a write of 0xA5 at 0xFE02 the
\* read at 0xFE00 returns 0xA5.
C30_Witness ==
    /\ OamReadDone
    /\ bus_addr = \hFE02 /\ bus_last.addr = \hFE00
    /\ bus_last.pre = OamFill
    /\ bus_last.wv = \hA5 /\ bus_last.v = \hA5

\* Two sprite-table addresses share a byte exactly when they lie in the same
\* record and have the same parity: the write shows at the other address in that
\* case and in no other.
C30_AliasPairs ==
    (OamReadDone /\ bus_last.addr # bus_addr) =>
        LET a == bus_addr - \hFE00
            p == bus_last.addr - \hFE00
        IN  /\ bus_last.pre = OamFill
            /\ bus_last.v = IF a \div 4 = p \div 4 /\ a % 2 = p % 2
                            THEN bus_last.wv ELSE OamFill

====
